---- MODULE Spec2Model ----
(***************************************************************************)
(* Daily Learning Feed Generator: the command-line run (main.py), the      *)
(* scheduler daemon (run_scheduler.py, scheduler.py) with its retry        *)
(* wrapper and polling thread, the four-stage pipeline                     *)
(* (DailyLearningGenerator.run_daily_generation) and the HealthChecker.    *)
(*                                                                         *)
(* Time inside one pipeline run is counted in minutes from the moment the  *)
(* articles are fetched; the HealthChecker's clock is counted in hours.    *)
(***************************************************************************)
EXTENDS Integers, Sequences, FiniteSets, TLC

\* ------------------------------------------------------------ bounds
MaxTopics == 1
MaxPrimary == 1
MaxRetryAttempts == 2
MaxSignals == 1
MaxElapsed == 1
MaxCalls == 4
MaxClock == 50
MaxCallLog == 2
MaxFetchTopics == 2
MaxFetchCalls == 1
MaxNet == 4
MaxBatch == 2
MaxFilterLen == 3
MaxParseLines == 7
MaxSumBatch == 2
MaxMatBatch == 2
MaxThreads == 2

\* ------------------------------------------------- program constants
\* HealthChecker.max_consecutive_failures
max_consecutive_failures == 3
\* check_health: hours_since_success > 48
StaleHours == 48
\* fetch_with_rss: published_date = now - timedelta(hours=2), in minutes
RssAgeMinutes == 120
SummaryLimit == 500
\* the process starts long after the epoch: time.time() at the first call
StartTime == 100
\* NotionLearningDatabase._rate_limit: min_interval = 0.3 s, in tenths of a second
NotionMinInterval == 3
\* batch_create_entries: time.sleep(0.5), in tenths of a second
BatchPause == 5

\* an Optional value is <<>> (None) or <<v>>
None == <<>>
Some(v) == <<v>>
Value(o) == o[1]

VARIABLES
    mode,                \* "cli" (main.py) or "daemon" (run_scheduler.py)
    config,              \* Config
    schedule_config,     \* ScheduleConfig
    args,                \* the command of the CLI run
    num_topics,          \* len(topics_to_process)
    main_pc,             \* position of the main thread
    handler_pc,          \* position of signal_handler, "none" when not running
    running,             \* run_scheduler.py's global running
    signals,             \* signals delivered so far
    exit_code,           \* exit status of the process, -1 while it runs
    setup_ok,            \* validate_setup has returned True
    fault,               \* what ended the CLI run early, "none" otherwise
    reported,            \* the configuration errors validate_setup has logged
    is_running,          \* LearningFeedScheduler.is_running
    scheduler_thread,    \* LearningFeedScheduler.scheduler_thread is set
    jobs,                \* schedule.jobs is non-empty
    loop_pc,             \* position of the run_scheduler thread
    loop_error,          \* an exception reached the polling loop (its except clause)
    retry_pc,            \* position inside _run_with_retry
    attempt,             \* _run_with_retry's loop variable
    trail,               \* what _run_with_retry did for the current trigger
    gen_pc,              \* position inside run_daily_generation
    gen_result,          \* its return value, once gen_pc is "returned"
    raised,              \* a stage raised during the current run
    stages,              \* the stages the current run has started, in order
    fetch_i, sum_i, mat_i, ent_i,  \* next item of each batch loop
    articles, recent_articles, summaries, learning_materials, created_entries,
    last_successful_run, \* HealthChecker
    consecutive_failures,
    alerts,              \* calls of _alert_on_repeated_failures
    calls,               \* record_success / record_failure calls so far
    health_status,       \* what check_health returned, if it was the latest call
    clock,               \* hours
    call_log,            \* component calls made on their own, with what came back
    perplexity_api_key,  \* ContentFetcher: a key is set
    rate_limit,          \* ContentFetcher.rate_limit, requests per minute
    last_request_time,   \* ContentFetcher.last_request_time, seconds
    time_now,            \* time.time(), seconds
    fc_pc,               \* position inside fetch_content
    fc_calls,            \* fetch_content calls so far
    fc_topic,            \* the topic fetch_content's loop is at
    fc_topics,           \* len(topics)
    fc_max_articles,     \* max_articles_per_topic
    all_articles,        \* fetch_content's all_articles
    fc_log,              \* per topic: what the primary gave, was the fallback called
    sent,                \* the times the primary-provider requests were sent
    adapter,             \* NotionLearningDatabase: its clock (tenths of a second),
                         \* last_request_time, and the network calls it has made
    db_schema,           \* the schema of the Notion database
    db_pages,            \* the pages of the Notion database
    batch_pc,            \* position inside batch_create_entries
    batch_len,           \* len(materials_list)
    batch_i,             \* the element batch_create_entries is at
    batch_attempts,      \* per element attempted: its index and how the write went
    batch_created,       \* batch_create_entries' created_entries
    stats,               \* the last get_database_stats call: query answered, entries held, dict returned
    filter_call,         \* the last filter_recent_content call: its arguments, the time, its result
    pp_pc,               \* _parse_perplexity_response: idle, or scanning the lines
    pp_lines,            \* the labels of the lines scanned so far
    current_article,     \* _parse_perplexity_response's current_article
    pp_articles,         \* _parse_perplexity_response's articles
    sum_call,            \* the last summarize_article call on its own: the reply and the result
    sb_pc,               \* position inside summarize_batch
    sb_len,              \* len(articles) of summarize_batch
    sb_i,                \* the article summarize_batch is at
    sb_attempts,         \* per article of the batch: its index and what summarize_article returned
    sb_summaries,        \* summarize_batch's summaries
    gm_pc,               \* position inside generate_batch_materials
    gm_len,              \* len(summaries) of generate_batch_materials
    gm_i,                \* the summary generate_batch_materials is at
    gm_log,              \* per summary: how the quiz and the flashcard sub-call went
    materials,           \* generate_batch_materials' materials
    threads,             \* every polling thread start_scheduler has created: where it is
    caller_pc,           \* the thread calling start_scheduler and stop_scheduler
    late_attempt         \* an attempt began after stop_scheduler had returned

cfgVars == <<mode, config, schedule_config, args, num_topics>>
mainVars == <<main_pc, handler_pc, running, signals, exit_code>>
setupVars == <<setup_ok, fault, reported>>
schedVars == <<is_running, scheduler_thread, jobs, loop_pc, loop_error>>
retryVars == <<retry_pc, attempt, trail>>
genVars == <<gen_pc, gen_result, raised, stages, fetch_i, sum_i, mat_i, ent_i,
             articles, recent_articles, summaries, learning_materials,
             created_entries>>
healthVars == <<last_successful_run, consecutive_failures, alerts, calls,
                health_status, clock>>
callVars == <<call_log>>
fetchVars == <<perplexity_api_key, rate_limit, last_request_time, time_now, fc_pc,
               fc_calls, fc_topic, fc_topics, fc_max_articles, all_articles, fc_log, sent>>
notionVars == <<adapter, db_schema, db_pages, batch_pc, batch_len, batch_i,
                batch_attempts, batch_created, stats>>
filterVars == <<filter_call>>
parseVars == <<pp_pc, pp_lines, current_article, pp_articles>>
sumVars == <<sum_call, sb_pc, sb_len, sb_i, sb_attempts, sb_summaries>>
matVars == <<gm_pc, gm_len, gm_i, gm_log, materials>>
multiVars == <<threads, caller_pc, late_attempt>>
moreVars == <<parseVars, sumVars, matVars, multiVars>>
compVars == <<callVars, fetchVars, notionVars, filterVars, moreVars>>
vars == <<cfgVars, setupVars, mainVars, schedVars, retryVars, genVars, healthVars, compVars>>

\* ------------------------------------------------------------ Config
Keys == {"", "key"}
ArticleCaps == {0, 1}
\* 0 is invalid; with 2 hours the fallback article is on the cutoff
MaxAgeChoices == {0, 2}

Configs ==
    [openai_api_key : Keys, notion_token : Keys, notion_database_id : Keys,
     max_articles_per_topic : ArticleCaps, content_max_age_hours : MaxAgeChoices]

ScheduleConfigs == [enabled : BOOLEAN, retry_attempts : 0..MaxRetryAttempts]

\* Config.validate: the list of errors, in the order the code appends them
validate(c) ==
    (IF c.openai_api_key = "" THEN <<"OPENAI_API_KEY is required">> ELSE <<>>)
    \o (IF c.notion_token = "" THEN <<"NOTION_TOKEN is required">> ELSE <<>>)
    \o (IF c.notion_database_id = ""
        THEN <<"NOTION_DATABASE_ID is required">> ELSE <<>>)
    \o (IF c.max_articles_per_topic <= 0
        THEN <<"max_articles_per_topic must be positive">> ELSE <<>>)
    \o (IF c.content_max_age_hours <= 0
        THEN <<"content_max_age_hours must be positive">> ELSE <<>>)

\* DailyLearningGenerator.validate_setup, given whether Notion answers
validate_setup_ConnectionOnly(c, notion_ok) == notion_ok
validate_setup(c, notion_ok) ==
    IF validate(c) # <<>> THEN FALSE
    ELSE IF ~notion_ok THEN FALSE
    ELSE TRUE

\* ---------------------------------------------------------- pipeline
StageOrder == <<"fetch", "filter", "summarize", "generate", "persist">>

\* fetch_with_rss: mock_articles[:max_articles], one article dated 2 hours back
fetch_with_rss(topic, max_articles) ==
    IF max_articles >= 1
    THEN <<[topic |-> topic, source |-> "rss", published_date |-> Some(0 - RssAgeMinutes)]>>
    ELSE <<>>

\* what fetch_with_perplexity returns when the provider yields k parsed blocks
\* (k = 0: no key, a non-200 answer, an exception, no complete block)
fetch_with_perplexity(topic, k) ==
    [i \in 1..k |-> [topic |-> topic, source |-> "perplexity", published_date |-> Some(0)]]

\* fetch_content, one topic: the fallback is used when the primary gave nothing
FetchOneTopic_NoFallback(topic, k, max_articles) == fetch_with_perplexity(topic, k)

FetchOneTopic(topic, k, max_articles) ==
    LET primary == fetch_with_perplexity(topic, k)
    IN  IF primary = <<>> THEN fetch_with_rss(topic, max_articles) ELSE primary

RECURSIVE FilterSeq(_, _)
FilterSeq(s, cutoff) ==
    IF s = <<>> THEN <<>>
    ELSE LET a == Head(s)
             keep == IF a.published_date # None
                     THEN Value(a.published_date) >= cutoff
                     ELSE TRUE
         IN  (IF keep THEN <<a>> ELSE <<>>) \o FilterSeq(Tail(s), cutoff)

\* filter_recent_content at time now (minutes)
filter_recent_content_Strict(arts, now, max_age_hours) ==
    FilterSeq(arts, now - 60 * max_age_hours + 1)

filter_recent_content(arts, now, max_age_hours) ==
    FilterSeq(arts, now - 60 * max_age_hours)

\* run_daily_generation's early returns
NoArticles(a) == a = <<>>
NoRecentArticles(r) == r = <<>>
NoSummaries_Never(s) == FALSE
NoSummaries(s) == s = <<>>

\* run_daily_generation: every stage call is inside try ... except Exception
GenCatches == TRUE

\* run_daily_generation: except Exception ... return False
GenExceptResult_Success == TRUE
GenExceptResult == FALSE

\* the pipeline runs on the main thread (CLI) or inside an attempt (daemon)
GenOwnerRuns ==
    \/ mode = "cli" /\ main_pc = "cli_run"
    \/ mode = "daemon" /\ loop_pc = "in_job" /\ retry_pc = "attempt"

GenFresh ==
    /\ gen_pc' = "fetch"
    /\ gen_result' = FALSE
    /\ raised' = FALSE
    /\ stages' = <<"fetch">>
    /\ fetch_i' = 1 /\ sum_i' = 1 /\ mat_i' = 1 /\ ent_i' = 1
    /\ articles' = <<>> /\ recent_articles' = <<>> /\ summaries' = <<>>
    /\ learning_materials' = <<>> /\ created_entries' = <<>>

\* run_daily_generation has returned to _run_with_retry: its locals are gone
GenLocalsGone ==
    /\ gen_pc' = "idle"
    /\ stages' = <<>>
    /\ fetch_i' = 1 /\ sum_i' = 1 /\ mat_i' = 1 /\ ent_i' = 1
    /\ articles' = <<>> /\ recent_articles' = <<>> /\ summaries' = <<>>
    /\ learning_materials' = <<>> /\ created_entries' = <<>>
    /\ UNCHANGED <<gen_result, raised>>

GenReturn(r) ==
    /\ gen_pc' = "returned"
    /\ gen_result' = r

\* fetch_content: one iteration of the loop over the topics
FetchTopic ==
    /\ GenOwnerRuns /\ gen_pc = "fetch" /\ fetch_i <= num_topics
    /\ \E k \in 0..MaxPrimary :
         articles' = articles \o FetchOneTopic(fetch_i, k, config.max_articles_per_topic)
    /\ fetch_i' = fetch_i + 1
    /\ UNCHANGED <<gen_pc, gen_result, raised, stages, sum_i, mat_i, ent_i,
                   recent_articles, summaries, learning_materials, created_entries>>
    /\ UNCHANGED <<cfgVars, setupVars, mainVars, schedVars, retryVars, healthVars, compVars>>

\* fetch_content returned: if not articles: return False
FetchReturn ==
    /\ GenOwnerRuns /\ gen_pc = "fetch" /\ fetch_i > num_topics
    /\ IF NoArticles(articles)
       THEN GenReturn(FALSE) /\ UNCHANGED stages
       ELSE /\ gen_pc' = "filter"
            /\ stages' = Append(stages, "filter")
            /\ UNCHANGED gen_result
    /\ UNCHANGED <<raised, fetch_i, sum_i, mat_i, ent_i, articles, recent_articles,
                   summaries, learning_materials, created_entries>>
    /\ UNCHANGED <<cfgVars, setupVars, mainVars, schedVars, retryVars, healthVars, compVars>>

\* filter_recent_content, then: if not recent_articles: return True
FilterRecent ==
    /\ GenOwnerRuns /\ gen_pc = "filter"
    /\ \E now \in 0..MaxElapsed :
         recent_articles' =
             filter_recent_content(articles, now, config.content_max_age_hours)
    /\ IF NoRecentArticles(recent_articles')
       THEN GenReturn(TRUE) /\ UNCHANGED stages
       ELSE /\ gen_pc' = "summarize"
            /\ stages' = Append(stages, "summarize")
            /\ UNCHANGED gen_result
    /\ UNCHANGED <<raised, fetch_i, sum_i, mat_i, ent_i, articles,
                   summaries, learning_materials, created_entries>>
    /\ UNCHANGED <<cfgVars, setupVars, mainVars, schedVars, retryVars, healthVars, compVars>>

\* summarize_batch: one article; summarize_article returns a Summary or None
SummarizeArticle ==
    /\ GenOwnerRuns /\ gen_pc = "summarize" /\ sum_i <= Len(recent_articles)
    /\ \E ok \in BOOLEAN :
         summaries' = IF ok THEN Append(summaries, recent_articles[sum_i])
                      ELSE summaries
    /\ sum_i' = sum_i + 1
    /\ UNCHANGED <<gen_pc, gen_result, raised, stages, fetch_i, mat_i, ent_i,
                   articles, recent_articles, learning_materials, created_entries>>
    /\ UNCHANGED <<cfgVars, setupVars, mainVars, schedVars, retryVars, healthVars, compVars>>

\* summarize_batch returned: if not summaries: return False
SummarizeReturn ==
    /\ GenOwnerRuns /\ gen_pc = "summarize" /\ sum_i > Len(recent_articles)
    /\ IF NoSummaries(summaries)
       THEN GenReturn(FALSE) /\ UNCHANGED stages
       ELSE /\ gen_pc' = "generate"
            /\ stages' = Append(stages, "generate")
            /\ UNCHANGED gen_result
    /\ UNCHANGED <<raised, fetch_i, sum_i, mat_i, ent_i, articles, recent_articles,
                   summaries, learning_materials, created_entries>>
    /\ UNCHANGED <<cfgVars, setupVars, mainVars, schedVars, retryVars, healthVars, compVars>>

\* generate_batch_materials: one summary, always one LearningMaterials
GenerateMaterials ==
    /\ GenOwnerRuns /\ gen_pc = "generate" /\ mat_i <= Len(summaries)
    /\ learning_materials' = Append(learning_materials, summaries[mat_i])
    /\ mat_i' = mat_i + 1
    /\ UNCHANGED <<gen_pc, gen_result, raised, stages, fetch_i, sum_i, ent_i,
                   articles, recent_articles, summaries, created_entries>>
    /\ UNCHANGED <<cfgVars, setupVars, mainVars, schedVars, retryVars, healthVars, compVars>>

\* generate_batch_materials returned: Step 4 starts
GenerateReturn ==
    /\ GenOwnerRuns /\ gen_pc = "generate" /\ mat_i > Len(summaries)
    /\ gen_pc' = "persist"
    /\ stages' = Append(stages, "persist")
    /\ UNCHANGED <<gen_result, raised, fetch_i, sum_i, mat_i, ent_i, articles,
                   recent_articles, summaries, learning_materials, created_entries>>
    /\ UNCHANGED <<cfgVars, setupVars, mainVars, schedVars, retryVars, healthVars, compVars>>

\* batch_create_entries: one write; create_learning_entry returns a page or None
CreateEntry ==
    /\ GenOwnerRuns /\ gen_pc = "persist" /\ ent_i <= Len(learning_materials)
    /\ \E ok \in BOOLEAN :
         created_entries' = IF ok THEN Append(created_entries, learning_materials[ent_i])
                            ELSE created_entries
    /\ ent_i' = ent_i + 1
    /\ UNCHANGED <<gen_pc, gen_result, raised, stages, fetch_i, sum_i, mat_i,
                   articles, recent_articles, summaries, learning_materials>>
    /\ UNCHANGED <<cfgVars, setupVars, mainVars, schedVars, retryVars, healthVars, compVars>>

\* batch_create_entries returned: the run reports success
PersistReturn ==
    /\ GenOwnerRuns /\ gen_pc = "persist" /\ ent_i > Len(learning_materials)
    /\ GenReturn(TRUE)
    /\ UNCHANGED <<raised, stages, fetch_i, sum_i, mat_i, ent_i, articles,
                   recent_articles, summaries, learning_materials, created_entries>>
    /\ UNCHANGED <<cfgVars, setupVars, mainVars, schedVars, retryVars, healthVars, compVars>>

\* a stage raises: caught by run_daily_generation's except clause
StageRaises ==
    /\ GenOwnerRuns /\ gen_pc \in {"fetch", "filter", "summarize", "generate", "persist"}
    /\ raised' = TRUE
    /\ IF GenCatches
       THEN GenReturn(GenExceptResult)
       ELSE gen_pc' = "raised" /\ UNCHANGED gen_result
    /\ UNCHANGED <<stages, fetch_i, sum_i, mat_i, ent_i, articles,
                   recent_articles, summaries, learning_materials, created_entries>>
    /\ UNCHANGED <<cfgVars, setupVars, mainVars, schedVars, retryVars, healthVars, compVars>>

GenStep ==
    \/ FetchTopic \/ FetchReturn \/ FilterRecent
    \/ SummarizeArticle \/ SummarizeReturn
    \/ GenerateMaterials \/ GenerateReturn
    \/ CreateEntry \/ PersistReturn
    \/ StageRaises

\* ------------------------------------------------- _run_with_retry
\* for attempt in range(1, self.schedule_config.retry_attempts + 1)
AttemptInRange_OneMore(a) == a <= schedule_config.retry_attempts + 1
AttemptInRange(a) == a <= schedule_config.retry_attempts

\* if attempt < self.schedule_config.retry_attempts: time.sleep(...)
ShouldWait_AfterLast(a) == a <= schedule_config.retry_attempts
ShouldWait(a) == a < schedule_config.retry_attempts

\* the head of the for loop: the next attempt starts, or the loop is over
RetryLoopHead ==
    /\ loop_pc = "in_job" /\ retry_pc = "loop_head"
    /\ IF AttemptInRange(attempt + 1)
       THEN /\ attempt' = attempt + 1
            /\ retry_pc' = "attempt"
            /\ trail' = Append(trail, "attempt")
            /\ GenFresh
       ELSE /\ retry_pc' = "gave_up"
            /\ UNCHANGED <<attempt, trail, genVars>>
    /\ UNCHANGED <<cfgVars, setupVars, mainVars, schedVars, healthVars, compVars>>

\* _run_with_retry: the attempt is inside try ... except Exception
RetryCatches == TRUE

\* run_scheduler: run_pending is inside try ... except Exception
LoopCatches == TRUE

\* run_daily_generation returned (if success: return, else the warning) or
\* raised (the except clause; were it missing, the polling loop's except clause,
\* which skips the sleep; were that missing too, the thread would die)
AttemptReturns ==
    /\ loop_pc = "in_job" /\ retry_pc = "attempt" /\ gen_pc \in {"returned", "raised"}
    /\ IF gen_pc = "returned"
       THEN /\ IF gen_result
               THEN /\ retry_pc' = "return_ok"
                    /\ trail' = Append(trail, "success")
               ELSE /\ retry_pc' = "check_wait"
                    /\ trail' = Append(trail, "failure")
            /\ UNCHANGED <<loop_pc, loop_error>>
       ELSE IF RetryCatches
       THEN /\ retry_pc' = "check_wait"
            /\ trail' = Append(trail, "error")
            /\ UNCHANGED <<loop_pc, loop_error>>
       ELSE /\ retry_pc' = "idle"
            /\ trail' = Append(trail, "escaped")
            /\ loop_pc' = IF LoopCatches THEN "while" ELSE "crashed"
            /\ loop_error' = LoopCatches
    /\ GenLocalsGone
    /\ UNCHANGED <<attempt, is_running, scheduler_thread, jobs>>
    /\ UNCHANGED <<cfgVars, setupVars, mainVars, healthVars, compVars>>

\* after a failed attempt: wait before retry (except for last attempt)
CheckWait ==
    /\ loop_pc = "in_job" /\ retry_pc = "check_wait"
    /\ IF ShouldWait(attempt)
       THEN /\ retry_pc' = "waiting"
            /\ trail' = Append(trail, "wait")
       ELSE /\ retry_pc' = "loop_head"
            /\ UNCHANGED trail
    /\ UNCHANGED <<attempt, cfgVars, setupVars, mainVars, schedVars, genVars, healthVars, compVars>>

\* time.sleep(retry_delay_minutes * 60) is over
WaitDone ==
    /\ loop_pc = "in_job" /\ retry_pc = "waiting"
    /\ retry_pc' = "loop_head"
    /\ UNCHANGED <<attempt, trail, cfgVars, setupVars, mainVars, schedVars, genVars, healthVars, compVars>>

\* the loop is exhausted: "All n attempts failed", back to the polling loop
GiveUp ==
    /\ loop_pc = "in_job" /\ retry_pc = "gave_up"
    /\ retry_pc' = "idle"
    /\ trail' = Append(trail, "gave_up")
    /\ loop_pc' = "sleep"
    /\ UNCHANGED <<attempt, is_running, scheduler_thread, jobs, loop_error>>
    /\ UNCHANGED <<cfgVars, setupVars, mainVars, genVars, healthVars, compVars>>

\* the return after a successful attempt, back to the polling loop
ReturnOk ==
    /\ loop_pc = "in_job" /\ retry_pc = "return_ok"
    /\ retry_pc' = "idle"
    /\ loop_pc' = "sleep"
    /\ UNCHANGED <<attempt, trail, is_running, scheduler_thread, jobs, loop_error>>
    /\ UNCHANGED <<cfgVars, setupVars, mainVars, genVars, healthVars, compVars>>

\* ------------------------------------- run_scheduler (polling thread)
\* while self.is_running
LoopContinues_Forever == TRUE
LoopContinues == is_running

LoopTest ==
    /\ loop_pc = "while"
    /\ loop_pc' = IF LoopContinues THEN "run_pending" ELSE "exited"
    /\ UNCHANGED <<is_running, scheduler_thread, jobs, loop_error>>
    /\ UNCHANGED <<cfgVars, setupVars, mainVars, retryVars, genVars, healthVars, compVars>>

\* schedule.run_pending(): a registered job is due (a calendar trigger) or not
RunPending ==
    /\ loop_pc = "run_pending"
    /\ \E due \in BOOLEAN :
         IF due /\ jobs
         THEN /\ loop_pc' = "in_job"
              /\ retry_pc' = "loop_head"
              /\ attempt' = 0
              /\ trail' = <<>>
         ELSE /\ loop_pc' = "sleep"
              /\ UNCHANGED retryVars
    /\ UNCHANGED <<is_running, scheduler_thread, jobs, loop_error>>
    /\ UNCHANGED <<cfgVars, setupVars, mainVars, genVars, healthVars, compVars>>

\* time.sleep(60) is over
SleepDone ==
    /\ loop_pc = "sleep"
    /\ loop_pc' = "while"
    /\ UNCHANGED <<is_running, scheduler_thread, jobs, loop_error>>
    /\ UNCHANGED <<cfgVars, setupVars, mainVars, retryVars, genVars, healthVars, compVars>>

ThreadAlive == loop_pc \notin {"none", "exited", "killed", "crashed"}

\* the steps of the polling thread outside run_daily_generation
LoopThreadStep ==
    \/ LoopTest \/ RunPending \/ SleepDone
    \/ RetryLoopHead \/ AttemptReturns \/ CheckWait \/ WaitDone
    \/ GiveUp \/ ReturnOk

\* ------------------------------------------ run_scheduler.py: main
MainIdle == handler_pc = "none"

Exit(code) ==
    /\ main_pc' = "exit"
    /\ exit_code' = code

\* scheduler = create_scheduler_from_env()
MainCreate ==
    /\ mode = "daemon" /\ MainIdle /\ main_pc = "create"
    /\ main_pc' = "validate"
    /\ UNCHANGED <<handler_pc, running, signals, exit_code>>
    /\ UNCHANGED <<cfgVars, setupVars, schedVars, retryVars, genVars, healthVars, compVars>>

\* if not scheduler.generator.validate_setup(): sys.exit(1)
MainValidate ==
    /\ mode = "daemon" /\ MainIdle /\ main_pc = "validate"
    /\ \E notion_ok \in BOOLEAN : setup_ok' = validate_setup(config, notion_ok)
    /\ reported' = validate(config)
    /\ IF setup_ok'
       THEN main_pc' = "start" /\ UNCHANGED exit_code
       ELSE Exit(1)
    /\ UNCHANGED <<handler_pc, running, signals, fault>>
    /\ UNCHANGED <<cfgVars, schedVars, retryVars, genVars, healthVars, compVars>>

\* start_scheduler up to self.is_running = True (setup_schedule included)
StartScheduler ==
    /\ mode = "daemon" /\ MainIdle /\ main_pc = "start"
    /\ IF is_running \/ ~schedule_config.enabled
       THEN /\ main_pc' = "set_running"
            /\ UNCHANGED <<is_running, jobs>>
       ELSE /\ jobs' = TRUE
            /\ is_running' = TRUE
            /\ main_pc' = "start_thread"
    /\ UNCHANGED <<handler_pc, running, signals, exit_code, scheduler_thread,
                   loop_pc, loop_error>>
    /\ UNCHANGED <<cfgVars, setupVars, retryVars, genVars, healthVars, compVars>>

\* threading.Thread(target=run_scheduler, daemon=True).start()
StartThread ==
    /\ mode = "daemon" /\ MainIdle /\ main_pc = "start_thread"
    /\ scheduler_thread' = TRUE
    /\ loop_pc' = "while"
    /\ main_pc' = "set_running"
    /\ UNCHANGED <<handler_pc, running, signals, exit_code, is_running, jobs,
                   loop_error>>
    /\ UNCHANGED <<cfgVars, setupVars, retryVars, genVars, healthVars, compVars>>

\* running = True
MainSetRunning ==
    /\ mode = "daemon" /\ MainIdle /\ main_pc = "set_running"
    /\ running' = TRUE
    /\ main_pc' = "wait"
    /\ UNCHANGED <<handler_pc, signals, exit_code>>
    /\ UNCHANGED <<cfgVars, setupVars, schedVars, retryVars, genVars, healthVars, compVars>>

\* while running: time.sleep(1) ends; the finally clause finds no local named
\* scheduler (it is a global), prints, and main returns: the process ends and
\* takes the daemon thread, with whatever it was doing, with it
MainReturn ==
    /\ mode = "daemon" /\ MainIdle /\ main_pc = "wait" /\ ~running
    /\ Exit(0)
    /\ IF ThreadAlive
       THEN /\ loop_pc' = "killed"
            /\ retry_pc' = "idle" /\ attempt' = 0 /\ trail' = <<>>
            /\ GenLocalsGone
       ELSE UNCHANGED <<loop_pc, retryVars, genVars>>
    /\ UNCHANGED <<handler_pc, running, signals, is_running, scheduler_thread, jobs,
                   loop_error>>
    /\ UNCHANGED <<cfgVars, setupVars, healthVars, compVars>>

\* ------------------------- signal_handler and stop_scheduler (main thread)
\* SIGINT or SIGTERM arrives and signal_handler runs on the main thread, up to
\* its end or up to the join inside stop_scheduler. "if scheduler:" is false
\* until line 28 has run; stop_scheduler returns at once when not is_running.
Signal ==
    /\ mode = "daemon" /\ handler_pc = "none" /\ main_pc # "exit"
    /\ signals < MaxSignals
    /\ signals' = signals + 1
    /\ IF main_pc = "create" \/ ~is_running
       THEN /\ running' = FALSE
            /\ UNCHANGED <<handler_pc, is_running, jobs>>
       ELSE /\ is_running' = FALSE
            /\ IF scheduler_thread /\ ThreadAlive
               THEN /\ handler_pc' = "stop_join"
                    /\ UNCHANGED <<running, jobs>>
               ELSE /\ jobs' = FALSE
                    /\ running' = FALSE
                    /\ UNCHANGED handler_pc
    /\ UNCHANGED <<main_pc, exit_code, scheduler_thread, loop_pc, loop_error>>
    /\ UNCHANGED <<cfgVars, setupVars, retryVars, genVars, healthVars, compVars>>

\* scheduler_thread.join(timeout=5) returns: the thread ended, or 5 s passed
JoinReturns(timed_out) == timed_out \/ ~ThreadAlive

\* the join returns, then schedule.clear(), and signal_handler's running = False
StopJoin ==
    /\ handler_pc = "stop_join"
    /\ \E timed_out \in BOOLEAN : JoinReturns(timed_out)
    /\ jobs' = FALSE
    /\ running' = FALSE
    /\ handler_pc' = "none"
    /\ UNCHANGED <<main_pc, signals, exit_code, is_running, scheduler_thread,
                   loop_pc, loop_error>>
    /\ UNCHANGED <<cfgVars, setupVars, retryVars, genVars, healthVars, compVars>>

MainThreadStep ==
    \/ MainCreate \/ MainValidate \/ StartScheduler \/ StartThread
    \/ MainSetRunning \/ MainReturn

\* ------------------------------------------------------ main.py: main
\* the run, the run with --dry-run, --stats, --setup-db
Commands == {"run", "dry_run", "stats", "setup_db"}

\* sys.exit(0) if success else sys.exit(1)
ExitStatus_Zero(success) == 0
ExitStatus(success) == IF success THEN 0 ELSE 1

\* if not app.validate_setup(): sys.exit(1)
CliValidate ==
    /\ mode = "cli" /\ main_pc = "cli_validate"
    /\ \E notion_ok \in BOOLEAN : setup_ok' = validate_setup(config, notion_ok)
    /\ reported' = validate(config)
    /\ IF setup_ok'
       THEN main_pc' = "cli_dispatch" /\ UNCHANGED exit_code
       ELSE Exit(1)
    /\ UNCHANGED <<handler_pc, running, signals, fault>>
    /\ UNCHANGED <<cfgVars, schedVars, retryVars, genVars, healthVars, compVars>>

\* --setup-db and --stats return from main; otherwise the run starts, after a
\* log line and nothing else when args.dry_run is set
CliDispatch ==
    /\ mode = "cli" /\ main_pc = "cli_dispatch"
    /\ IF args \in {"setup_db", "stats"}
       THEN Exit(0) /\ UNCHANGED genVars
       ELSE main_pc' = "cli_run" /\ GenFresh /\ UNCHANGED exit_code
    /\ UNCHANGED <<handler_pc, running, signals>>
    /\ UNCHANGED <<cfgVars, setupVars, schedVars, retryVars, healthVars, compVars>>

\* success = app.run_daily_generation(topics), then sys.exit; an exception
\* leaving the run would end in main's except Exception: sys.exit(1)
CliRunReturns ==
    /\ mode = "cli" /\ main_pc = "cli_run" /\ gen_pc \in {"returned", "raised"}
    /\ IF gen_pc = "returned"
       THEN Exit(ExitStatus(gen_result)) /\ UNCHANGED fault
       ELSE Exit(1) /\ fault' = "Exception"
    /\ UNCHANGED <<handler_pc, running, signals, setup_ok, reported>>
    /\ UNCHANGED <<cfgVars, schedVars, retryVars, genVars, healthVars, compVars>>

\* except KeyboardInterrupt: sys.exit(1); except Exception: sys.exit(1)
\* (Ctrl+C at any point of the try block; an error outside run_daily_generation,
\* such as EOF on the interactive prompt)
CliFault ==
    /\ mode = "cli"
    /\ \E f \in {"KeyboardInterrupt", "Exception"} :
         /\ main_pc = "cli_dispatch" \/ (f = "KeyboardInterrupt" /\ main_pc = "cli_run")
         /\ fault' = f
    /\ Exit(1)
    /\ UNCHANGED <<handler_pc, running, signals, setup_ok, reported>>
    /\ UNCHANGED <<cfgVars, schedVars, retryVars, genVars, healthVars, compVars>>

CliStep ==
    \/ CliValidate \/ CliDispatch \/ CliRunReturns \/ CliFault

\* ------------------------------------------------------ HealthChecker
TickHours == {1, 24}

\* if self.consecutive_failures >= self.max_consecutive_failures
AlertDue_Above(failures) == failures > max_consecutive_failures
AlertDue(failures) == failures >= max_consecutive_failures

\* hours_since_success > 48
Stale_AtLimit(now, last) == now - last >= StaleHours
Stale(now, last) == now - last > StaleHours

\* HealthChecker.check_health at time now
check_health(now) ==
    LET stale == IF last_successful_run # None
                 THEN Stale(now, Value(last_successful_run)) ELSE FALSE
        critical == AlertDue(consecutive_failures)
    IN  [status |-> IF critical THEN "critical"
                    ELSE IF stale THEN "warning" ELSE "healthy",
         last_successful_run |-> last_successful_run,
         consecutive_failures |-> consecutive_failures,
         issues |-> (IF stale THEN <<"stale">> ELSE <<>>)
                    \o (IF critical THEN <<"failures">> ELSE <<>>)]

QuietRest ==
    UNCHANGED <<cfgVars, setupVars, mainVars, schedVars, retryVars, genVars, compVars>>

\* HealthChecker.record_success
RecordSuccess ==
    /\ Len(calls) < MaxCalls
    /\ last_successful_run' = Some(clock)
    /\ consecutive_failures' = 0
    /\ calls' = Append(calls, "success")
    /\ health_status' = None
    /\ UNCHANGED <<alerts, clock>>
    /\ QuietRest

\* HealthChecker.record_failure, _alert_on_repeated_failures included
RecordFailure ==
    /\ Len(calls) < MaxCalls
    /\ consecutive_failures' = consecutive_failures + 1
    /\ alerts' = IF AlertDue(consecutive_failures') THEN alerts + 1 ELSE alerts
    /\ calls' = Append(calls, "failure")
    /\ health_status' = None
    /\ UNCHANGED <<last_successful_run, clock>>
    /\ QuietRest

CheckHealth ==
    /\ health_status' = Some(check_health(clock))
    /\ UNCHANGED <<last_successful_run, consecutive_failures, alerts, calls, clock>>
    /\ QuietRest

\* wall-clock time passes
Tick ==
    /\ \E d \in TickHours :
         /\ clock + d <= MaxClock
         /\ clock' = clock + d
    /\ health_status' = None
    /\ UNCHANGED <<last_successful_run, consecutive_failures, alerts, calls>>
    /\ QuietRest

\* the program outside the components' own state
ProgramRest ==
    UNCHANGED <<cfgVars, setupVars, mainVars, schedVars, retryVars, genVars, healthVars,
                filterVars, moreVars>>

\* the program and the components of the sections above
CoreRest ==
    UNCHANGED <<cfgVars, setupVars, mainVars, schedVars, retryVars, genVars, healthVars,
                callVars, fetchVars, notionVars, filterVars>>

\* ------------------------------------------- NotionLearningDatabase
\* the candidate field names of create_learning_entry, in the code's order
title_fields == <<"Title", "Name">>
summary_fields == <<"Summary", "Notes", "Content">>
url_fields == <<"Source Link", "Source URL", "URL", "Link", "Source">>
date_fields == <<"Date", "Date Added", "Created", "Added">>
priority_fields == <<"Priority", "Difficulty">>
quiz_fields == <<"Quiz Questions", "Quiz", "Questions">>
flashcard_fields == <<"Flashcards", "Cards", "Flash Cards">>
key_fields == <<"Key Points", "Key Insights", "Points">>
objective_fields == <<"Learning Objectives", "Objectives", "Goals">>

\* properties = {}
EmptyMap == [n \in {} |-> "none"]

\* properties[name] = {encoding: <the value of the logical attribute>}
Put(props, name, encoding, attribute) ==
    [n \in DOMAIN props \cup {name} |->
        IF n = name THEN [encoding |-> encoding, attribute |-> attribute]
        ELSE props[n]]

\* for field in fields: if field in schema and schema[field] == type: ... break
RECURSIVE FirstTyped(_, _, _)
FirstTyped(fields, schema, type) ==
    IF fields = <<>> THEN None
    ELSE IF Head(fields) \in DOMAIN schema /\ schema[Head(fields)] = type
         THEN Some(Head(fields))
         ELSE FirstTyped(Tail(fields), schema, type)

SetFirstTyped(props, fields, schema, type, attribute) ==
    LET f == FirstTyped(fields, schema, type)
    IN  IF f = None THEN props ELSE Put(props, Value(f), type, attribute)

\* if "Title" in schema or "Name" in schema: "Title" if "Title" in schema else "Name"
SetTitle(props, schema) ==
    IF "Title" \in DOMAIN schema \/ "Name" \in DOMAIN schema
    THEN Put(props, IF "Title" \in DOMAIN schema THEN "Title" ELSE "Name",
             "title", "title")
    ELSE props

\* if "Topic" in schema: select, multi_select or rich_text, nothing otherwise
SetTopic(props, schema) ==
    IF "Topic" \in DOMAIN schema /\ schema["Topic"] \in {"select", "multi_select", "rich_text"}
    THEN Put(props, "Topic", schema["Topic"], "topic")
    ELSE props

\* if "Status" in schema: select, status or rich_text, nothing otherwise
SetStatus(props, schema) ==
    IF "Status" \in DOMAIN schema /\ schema["Status"] \in {"select", "status", "rich_text"}
    THEN Put(props, "Status", schema["Status"], "status")
    ELSE props

\* the properties create_learning_entry builds for a probed schema
BuildProperties(schema) ==
    LET p1 == SetTitle(EmptyMap, schema)
        p2 == SetTopic(p1, schema)
        p3 == SetFirstTyped(p2, summary_fields, schema, "rich_text", "summary")
        p4 == SetFirstTyped(p3, url_fields, schema, "url", "url")
        p5 == SetFirstTyped(p4, date_fields, schema, "date", "date")
        p6 == SetStatus(p5, schema)
        p7 == SetFirstTyped(p6, priority_fields, schema, "select", "priority")
        p8 == SetFirstTyped(p7, quiz_fields, schema, "rich_text", "quiz")
        p9 == SetFirstTyped(p8, flashcard_fields, schema, "rich_text", "flashcards")
        p10 == SetFirstTyped(p9, <<"Answers">>, schema, "rich_text", "answers")
        p11 == SetFirstTyped(p10, key_fields, schema, "rich_text", "key_points")
    IN  SetFirstTyped(p11, objective_fields, schema, "rich_text", "objectives")

\* the schema create_database_schema sets up
DefaultSchema ==
    [n \in {"Title", "Topic", "Summary", "Source URL", "Date Added", "Quiz Questions",
            "Flashcards", "Status", "Priority", "Tags", "Key Points",
            "Learning Objectives"} |->
        CASE n = "Title" -> "title"
          [] n \in {"Topic", "Tags"} -> "multi_select"
          [] n = "Source URL" -> "url"
          [] n = "Date Added" -> "date"
          [] n \in {"Status", "Priority"} -> "select"
          [] OTHER -> "rich_text"]

\* --------------------------------------------------- provider calls
\* what a provider does with one request
Outcomes == {"ok", "non_200", "timeout", "transport"}

\* requests.post raises on a timeout or transport failure and returns the
\* response otherwise; the OpenAI and Notion clients raise on every failure
PostRaises(outcome) == outcome \in {"timeout", "transport"}
ClientRaises(outcome) == outcome # "ok"

\* what a call gives its caller: a return value, or an exception
Returned(v) == [raised |-> FALSE, value |-> v]
RaisedToCaller == [raised |-> TRUE, value |-> <<>>]

\* the try ... except Exception around each provider request
FetchCatches_Missing == FALSE
FetchCatches == TRUE
SummarizeCatches_Missing == FALSE

SummarizeCatches == TRUE
QuizCatches_Missing == FALSE

QuizCatches == TRUE
FlashcardCatches == TRUE
SchemaCatches == TRUE
EntryCatches_Missing == FALSE

EntryCatches == TRUE

\* ContentFetcher.fetch_with_perplexity as its caller sees it
PerplexityCall(topic, has_key, outcome, k) ==
    IF ~has_key THEN Returned(<<>>)
    ELSE IF PostRaises(outcome)
    THEN IF FetchCatches THEN Returned(<<>>) ELSE RaisedToCaller
    ELSE IF outcome = "ok" THEN Returned(fetch_with_perplexity(topic, k))
    ELSE Returned(<<>>)

\* Summarizer.summarize_article: a Summary (also for a reply that is not
\* JSON), or None
summarize_article(article, outcome) ==
    IF ClientRaises(outcome)
    THEN IF SummarizeCatches THEN Returned(None) ELSE RaisedToCaller
    ELSE Returned(Some(article))

\* QuizGenerator.generate_quiz_questions: the n questions of the reply
generate_quiz_questions(summary, outcome, n) ==
    IF ClientRaises(outcome)
    THEN IF QuizCatches THEN Returned(<<>>) ELSE RaisedToCaller
    ELSE Returned([i \in 1..n |-> "question"])

\* QuizGenerator.generate_flashcards: the n flashcards of the reply
generate_flashcards(summary, outcome, n) ==
    IF ClientRaises(outcome)
    THEN IF FlashcardCatches THEN Returned(<<>>) ELSE RaisedToCaller
    ELSE Returned([i \in 1..n |-> "flashcard"])

\* NotionLearningDatabase.get_database_schema: the schema, {} on a failure
get_database_schema(schema, outcome) ==
    IF ClientRaises(outcome)
    THEN IF SchemaCatches THEN Returned(EmptyMap) ELSE RaisedToCaller
    ELSE Returned(schema)

\* the properties create_learning_entry passes to pages.create
EntryProperties(schema, probe_outcome) ==
    BuildProperties(get_database_schema(schema, probe_outcome).value)

\* NotionLearningDatabase.create_learning_entry: the response of pages.create
\* (here the page's properties), or None
create_learning_entry(schema, probe_outcome, create_outcome) ==
    LET probe == get_database_schema(schema, probe_outcome)
    IN  IF probe.raised \/ ClientRaises(create_outcome)
        THEN IF EntryCatches THEN Returned(None) ELSE RaisedToCaller
        ELSE Returned(Some(BuildProperties(probe.value)))

\* the component calls, each made on its own with any provider outcome
CallLogged(component, outcome, result) ==
    /\ Len(call_log) < MaxCallLog
    /\ call_log' = Append(call_log,
           [component |-> component, outcome |-> outcome,
            raised |-> result.raised, empty |-> result.value = <<>>])
    /\ ProgramRest
    /\ UNCHANGED <<fetchVars, notionVars>>

CallFetch ==
    \E outcome \in Outcomes, has_key \in BOOLEAN, k \in 0..MaxPrimary :
        CallLogged("fetch_with_perplexity", outcome,
                   PerplexityCall(1, has_key, outcome, k))

CallSummarize ==
    \E outcome \in Outcomes :
        CallLogged("summarize_article", outcome, summarize_article(1, outcome))

CallQuiz ==
    \E outcome \in Outcomes, n \in 0..MaxPrimary :
        CallLogged("generate_quiz_questions", outcome,
                   generate_quiz_questions(1, outcome, n))

CallFlashcards ==
    \E outcome \in Outcomes, n \in 0..MaxPrimary :
        CallLogged("generate_flashcards", outcome,
                   generate_flashcards(1, outcome, n))

CallCreateEntry ==
    \E outcome \in Outcomes, probe_outcome \in Outcomes,
       schema \in {EmptyMap, DefaultSchema} :
        CallLogged("create_learning_entry", outcome,
                   create_learning_entry(schema, probe_outcome, outcome))

\* ------------------------------- NotionLearningDatabase: the adapter
\* NotionLearningDatabase.__init__ (last_request_time = 0), nothing called yet
AdapterFresh ==
    /\ adapter = [time |-> StartTime, last_request_time |-> 0, limited |-> FALSE,
                  net |-> <<>>]
    /\ db_pages = <<>>
    /\ batch_pc = "idle" /\ batch_len = 0 /\ batch_i = 1
    /\ batch_attempts = <<>> /\ batch_created = <<>>
    /\ stats = None

\* how long a request to Notion takes, in tenths of a second
NotionLatencies == {0, 4}

\* _rate_limit: sleep until min_interval has passed, then stamp
NotionRateLimit(a) ==
    LET time_since_last == a.time - a.last_request_time
        t == IF time_since_last < NotionMinInterval
             THEN a.time + (NotionMinInterval - time_since_last)
             ELSE a.time
    IN  [a EXCEPT !.time = t, !.last_request_time = t, !.limited = TRUE]

\* a request of self.client: when it was sent, and whether _rate_limit was
\* called since the request before it
NotionRequest(a, op, latency) ==
    [a EXCEPT !.net = Append(@, [op |-> op, at |-> a.time, limited |-> a.limited]),
              !.time = @ + latency,
              !.limited = FALSE]

\* a method that is _rate_limit() followed by one request
LimitedRequest(a, op, latency) == NotionRequest(NotionRateLimit(a), op, latency)

\* create_learning_entry: _rate_limit(), get_database_schema (its own
\* _rate_limit() and databases.retrieve), then pages.create
EntryRequests(a, latency) ==
    LET probed == LimitedRequest(NotionRateLimit(a), "databases.retrieve", latency)
    IN  NotionRequest(probed, "pages.create", latency)

AdapterIdle == batch_pc = "idle" /\ Len(adapter.net) < MaxNet

OnlyAdapter ==
    /\ UNCHANGED <<db_schema, db_pages, batch_pc, batch_len, batch_i, batch_attempts,
                   batch_created, stats>>
    /\ ProgramRest /\ UNCHANGED <<callVars, fetchVars>>

\* verify_database_connection
VerifyConnection ==
    /\ AdapterIdle
    /\ \E latency \in NotionLatencies :
         adapter' = LimitedRequest(adapter, "databases.retrieve", latency)
    /\ OnlyAdapter

\* create_database_schema
CreateDatabaseSchema ==
    /\ AdapterIdle
    /\ \E latency \in NotionLatencies :
         adapter' = LimitedRequest(adapter, "databases.update", latency)
    /\ OnlyAdapter

\* query_recent_entries
QueryRecentEntries ==
    /\ AdapterIdle
    /\ \E latency \in NotionLatencies :
         adapter' = LimitedRequest(adapter, "databases.query", latency)
    /\ OnlyAdapter

\* update_entry_status
UpdateEntryStatus ==
    /\ AdapterIdle
    /\ \E latency \in NotionLatencies :
         adapter' = LimitedRequest(adapter, "pages.update", latency)
    /\ OnlyAdapter

\* notion_client.py imports datetime only; timedelta is imported inside
\* query_recent_entries and is no name of get_database_stats
TimedeltaDefined == FALSE

HasEncoding(page, name, encoding) ==
    name \in DOMAIN page /\ page[name].encoding = encoding

\* what get_database_stats returns: the counts over the query result, or {}
\* from its except clause
get_database_stats(pages, outcome) ==
    IF ClientRaises(outcome) \/ ~TimedeltaDefined
    THEN [empty |-> TRUE, total_entries |-> 0, topics |-> 0, statuses |-> 0,
          recent_entries |-> 0]
    ELSE [empty |-> FALSE,
          total_entries |-> Len(pages),
          topics |-> Cardinality({i \in 1..Len(pages) :
                                     HasEncoding(pages[i], "Topic", "multi_select")}),
          statuses |-> Len(pages),
          recent_entries |-> Cardinality({i \in 1..Len(pages) :
                                     HasEncoding(pages[i], "Date Added", "date")})]

GetDatabaseStats ==
    /\ AdapterIdle
    /\ \E latency \in NotionLatencies, outcome \in Outcomes :
         /\ adapter' = LimitedRequest(adapter, "databases.query", latency)
         /\ stats' = Some([answered |-> outcome = "ok", entries |-> Len(db_pages),
                           report |-> get_database_stats(db_pages, outcome)])
    /\ UNCHANGED <<db_schema, db_pages, batch_pc, batch_len, batch_i, batch_attempts,
                   batch_created>>
    /\ ProgramRest /\ UNCHANGED <<callVars, fetchVars>>

\* batch_create_entries is called with n materials: created_entries = []
BatchCreateCall ==
    /\ AdapterIdle
    /\ \E n \in 0..MaxBatch :
         /\ Len(adapter.net) + 2 * n <= MaxNet
         /\ batch_len' = n
    /\ batch_pc' = "loop"
    /\ batch_i' = 1
    /\ batch_attempts' = <<>>
    /\ batch_created' = <<>>
    /\ stats' = None
    /\ UNCHANGED <<adapter, db_schema, db_pages>>
    /\ ProgramRest /\ UNCHANGED <<callVars, fetchVars>>

\* if entry: created_entries.append(entry)
EntryMade(entry) == entry # None

\* if i < len(materials_list) - 1: time.sleep(0.5)
BatchSleeps(i, n) == i < n

\* one iteration: create_learning_entry, the append, the pause
BatchCreateEntry ==
    /\ batch_pc = "loop" /\ batch_i <= batch_len
    /\ \E latency \in NotionLatencies, probe_outcome \in Outcomes,
          create_outcome \in Outcomes :
         LET result == create_learning_entry(db_schema, probe_outcome, create_outcome)
             requests == EntryRequests(adapter, latency)
         IN  /\ adapter' = [requests EXCEPT !.time =
                                IF BatchSleeps(batch_i, batch_len)
                                THEN @ + BatchPause ELSE @]
             /\ db_pages' = IF create_outcome = "ok"
                            THEN Append(db_pages, Value(result.value))
                            ELSE db_pages
             /\ batch_attempts' = Append(batch_attempts,
                    [index |-> batch_i, ok |-> create_outcome = "ok",
                     schema |-> get_database_schema(db_schema, probe_outcome).value,
                     properties |-> EntryProperties(db_schema, probe_outcome)])
             /\ IF result.raised
                THEN batch_pc' = "raised" /\ UNCHANGED <<batch_i, batch_created>>
                ELSE /\ batch_created' =
                            IF EntryMade(result.value)
                            THEN Append(batch_created,
                                        [index |-> batch_i,
                                         properties |-> Value(result.value)])
                            ELSE batch_created
                     /\ batch_i' = batch_i + 1
                     /\ UNCHANGED batch_pc
    /\ UNCHANGED <<db_schema, batch_len, stats>>
    /\ ProgramRest /\ UNCHANGED <<callVars, fetchVars>>

\* return created_entries
BatchCreateReturn ==
    /\ batch_pc = "loop" /\ batch_i > batch_len
    /\ batch_pc' = "idle"
    /\ UNCHANGED <<adapter, db_schema, db_pages, batch_len, batch_i, batch_attempts,
                   batch_created, stats>>
    /\ ProgramRest /\ UNCHANGED <<callVars, fetchVars>>

\* ------------------------------------------------------ ContentFetcher
\* seconds a request to the provider takes, and seconds between two
\* fetch_content calls
FetchLatencies == {0, 1}
FetchPauses == {0, 2}

\* API_RATE_LIMIT_PER_MINUTE values whose interval is a whole number of seconds
RateLimits == {20, 30, 60}

\* ContentFetcher.__init__: last_request_time = 0; no fetch_content running
FetcherFresh ==
    /\ last_request_time = 0
    /\ time_now = StartTime
    /\ fc_pc = "idle" /\ fc_calls = 0 /\ fc_topic = 1 /\ fc_topics = 0 /\ fc_max_articles = 0
    /\ all_articles = <<>> /\ fc_log = <<>> /\ sent = <<>>

\* min_interval = 60 / self.rate_limit
min_interval(rate) == 60 \div rate

\* _rate_limit: the time at which it returns when called at time t; time.sleep
\* may overrun by late
rate_limit_return_time_NoWait(t, last, rate, late) == t
rate_limit_return_time(t, last, rate, late) ==
    IF t - last < min_interval(rate)
    THEN t + (min_interval(rate) - (t - last)) + late
    ELSE t

\* if not articles: the RSS fallback
UseFallback_Always(primary) == TRUE
UseFallback(primary) == primary = <<>>

\* fetch_content is called: all_articles = []
FetchContentCall ==
    /\ fc_pc = "idle"
    /\ fc_calls < MaxFetchCalls
    /\ fc_calls' = fc_calls + 1
    /\ \E n \in 1..MaxFetchTopics, cap \in ArticleCaps, pause \in FetchPauses :
         /\ fc_topics' = n
         /\ fc_max_articles' = cap
         /\ time_now' = time_now + pause
    /\ fc_pc' = "loop"
    /\ fc_topic' = 1
    /\ all_articles' = <<>>
    /\ fc_log' = <<>>
    /\ UNCHANGED <<perplexity_api_key, rate_limit, last_request_time, sent>>
    /\ ProgramRest /\ UNCHANGED <<callVars, notionVars>>

\* one iteration of "for topic in topics": fetch_with_perplexity (key check,
\* _rate_limit, the request), the fallback, extend, time.sleep(1)
FetchContentTopic ==
    /\ fc_pc = "loop" /\ fc_topic <= fc_topics
    /\ \E outcome \in Outcomes, k \in 0..MaxPrimary, late \in 0..1,
          latency \in FetchLatencies :
         LET send_time == IF perplexity_api_key
                          THEN rate_limit_return_time(time_now, last_request_time,
                                                      rate_limit, late)
                          ELSE time_now
             primary == PerplexityCall(fc_topic, perplexity_api_key, outcome, k)
             fallback == UseFallback(primary.value)
             found == IF fallback THEN fetch_with_rss(fc_topic, fc_max_articles)
                      ELSE primary.value
         IN  /\ last_request_time' =
                    IF perplexity_api_key THEN send_time ELSE last_request_time
             /\ sent' = IF perplexity_api_key THEN Append(sent, send_time) ELSE sent
             /\ IF primary.raised
                THEN /\ fc_pc' = "raised"
                     /\ time_now' = send_time + latency
                     /\ UNCHANGED <<fc_topic, all_articles, fc_log>>
                ELSE /\ all_articles' = all_articles \o found
                     /\ fc_log' = Append(fc_log,
                            [topic |-> fc_topic, primary |-> primary.value,
                             fallback |-> fallback])
                     /\ fc_topic' = fc_topic + 1
                     /\ time_now' = (IF perplexity_api_key THEN send_time + latency
                                ELSE time_now) + 1
                     /\ UNCHANGED fc_pc
    /\ UNCHANGED <<perplexity_api_key, rate_limit, fc_calls, fc_topics, fc_max_articles>>
    /\ ProgramRest /\ UNCHANGED <<callVars, notionVars>>

\* return all_articles
FetchContentReturn ==
    /\ fc_pc = "loop" /\ fc_topic > fc_topics
    /\ fc_pc' = "idle"
    /\ UNCHANGED <<perplexity_api_key, rate_limit, last_request_time, time_now, fc_calls,
                   fc_topic, fc_topics, fc_max_articles, all_articles, fc_log, sent>>
    /\ ProgramRest /\ UNCHANGED <<callVars, notionVars>>

\* ------------------------- ContentFetcher._parse_perplexity_response
\* a line of the response: one of the four labelled kinds, or any other line
\* (a blank line between two blocks among them)
LineLabels == {"Title", "URL", "Summary", "Source", "other"}

\* the key of current_article a labelled line sets
ArticleKey(label) ==
    CASE label = "Title" -> "title"
      [] label = "URL" -> "url"
      [] label = "Summary" -> "content"
      [] label = "Source" -> "source"

ArticleKeys == {"title", "url", "content", "source"}

\* current_article[key] = value
SetKey(current, key, value) ==
    [k \in DOMAIN current \cup {key} |-> IF k = key THEN value ELSE current[k]]

\* the body of "for line in lines" for the line at position pos; the value
\* of a line is its position in the response
ParseStep(current, found, label, pos) ==
    IF label = "other" THEN [current |-> current, articles |-> found]
    ELSE LET set == SetKey(current, ArticleKey(label), pos)
         IN  IF label = "Source" /\ ArticleKeys \subseteq DOMAIN set
             THEN [current |-> EmptyMap, articles |-> Append(found, set)]
             ELSE [current |-> set, articles |-> found]

ParseFresh ==
    /\ pp_pc = "idle" /\ pp_lines = <<>>
    /\ current_article = EmptyMap /\ pp_articles = <<>>

\* _parse_perplexity_response is called: articles = [], current_article = {}
ParseCall ==
    /\ pp_pc = "idle"
    /\ pp_pc' = "scan"
    /\ pp_lines' = <<>>
    /\ current_article' = EmptyMap
    /\ pp_articles' = <<>>
    /\ CoreRest /\ UNCHANGED <<sumVars, matVars, multiVars>>

\* one iteration of "for line in lines"
ParseLine ==
    /\ pp_pc = "scan"
    /\ Len(pp_lines) < MaxParseLines
    /\ \E label \in LineLabels :
         LET step == ParseStep(current_article, pp_articles, label, Len(pp_lines) + 1)
         IN  /\ pp_lines' = Append(pp_lines, label)
             /\ current_article' = step.current
             /\ pp_articles' = step.articles
    /\ UNCHANGED pp_pc
    /\ CoreRest /\ UNCHANGED <<sumVars, matVars, multiVars>>

\* return articles
ParseReturn ==
    /\ pp_pc = "scan"
    /\ pp_pc' = "idle"
    /\ UNCHANGED <<pp_lines, current_article, pp_articles>>
    /\ CoreRest /\ UNCHANGED <<sumVars, matVars, multiVars>>

\* ----------------------------------------------------------- Summarizer
\* what json.loads makes of a text: an error, the requested object with its
\* three keys, an object without them, or a JSON value that is no object
JsonKinds == {"invalid", "full", "empty", "other"}

\* len(content) of a reply, around the 500 characters kept by the fallback
ContentLengths == {20, 500, 501}

\* the reply texts: "```json" in content, a closing fence after it, what the
\* fenced text and the whole text are as JSON, and the length
Contents ==
    {c \in [fence : BOOLEAN, closed : BOOLEAN, fenced : JsonKinds, whole : JsonKinds,
            len : ContentLengths] :
        /\ c.closed => c.fence
        /\ ~c.closed => c.fenced = "invalid"}

\* content[:500]
Prefix(len) == IF len < SummaryLimit THEN len ELSE SummaryLimit

\* Summary(summary=content[:500], key_points=[], learning_objectives=[])
FallbackSummary(article, content) ==
    [original_article |-> article, text |-> "raw", chars |-> Prefix(content.len),
     key_points |-> 0, learning_objectives |-> 0]

\* Summary(result.get("summary", ""), result.get("key_points", []), ...)
ParsedSummary(article, part, kind) ==
    [original_article |-> article, text |-> part,
     chars |-> IF kind = "full" THEN 1 ELSE 0,
     key_points |-> IF kind = "full" THEN 3 ELSE 0,
     learning_objectives |-> IF kind = "full" THEN 2 ELSE 0]

\* result.get(...) on what json.loads returned: AttributeError unless a dict
SummaryFromResult(article, part, kind) ==
    IF kind = "other"
    THEN IF SummarizeCatches THEN Returned(None) ELSE RaisedToCaller
    ELSE Returned(Some(ParsedSummary(article, part, kind)))

\* summarize_article from the reply on: the fenced branch, the direct branch
ParseReply(article, content) ==
    IF content.fence
    THEN IF content.closed
         THEN IF content.fenced = "invalid"
              THEN Returned(Some(FallbackSummary(article, content)))
              ELSE SummaryFromResult(article, "fenced", content.fenced)
         ELSE Returned(Some(FallbackSummary(article, content)))
    ELSE IF content.whole = "invalid"
         THEN Returned(Some(FallbackSummary(article, content)))
         ELSE SummaryFromResult(article, "whole", content.whole)

\* Summarizer.summarize_article with the reply it gets
summarize_article_reply(article, outcome, content) ==
    IF ClientRaises(outcome)
    THEN IF SummarizeCatches THEN Returned(None) ELSE RaisedToCaller
    ELSE ParseReply(article, content)

SummarizerFresh ==
    /\ sum_call = None
    /\ sb_pc = "idle" /\ sb_len = 0 /\ sb_i = 1
    /\ sb_attempts = <<>> /\ sb_summaries = <<>>

\* summarize_article called on its own
CallSummarizeArticle ==
    /\ sb_pc = "idle"
    /\ \E outcome \in Outcomes, content \in Contents :
         sum_call' = Some([outcome |-> outcome, content |-> content,
                           result |-> summarize_article_reply(1, outcome, content)])
    /\ UNCHANGED <<sb_pc, sb_len, sb_i, sb_attempts, sb_summaries>>
    /\ CoreRest /\ UNCHANGED <<parseVars, matVars, multiVars>>

\* summarize_batch is called with n articles: summaries = []
SummarizeBatchCall ==
    /\ sb_pc = "idle"
    /\ \E n \in 0..MaxSumBatch : sb_len' = n
    /\ sb_pc' = "loop"
    /\ sb_i' = 1
    /\ sb_attempts' = <<>>
    /\ sb_summaries' = <<>>
    /\ sum_call' = None
    /\ CoreRest /\ UNCHANGED <<parseVars, matVars, multiVars>>

\* if summary: summaries.append(summary)
SummaryMade(summary) == summary # None

\* one iteration of "for i, article in enumerate(articles)"
SummarizeBatchArticle ==
    /\ sb_pc = "loop" /\ sb_i <= sb_len
    /\ \E outcome \in Outcomes, content \in Contents :
         LET result == summarize_article_reply(sb_i, outcome, content)
         IN  /\ sb_attempts' = Append(sb_attempts,
                    [index |-> sb_i, raised |-> result.raised, result |-> result.value])
             /\ IF result.raised
                THEN sb_pc' = "raised" /\ UNCHANGED <<sb_i, sb_summaries>>
                ELSE /\ sb_summaries' = IF SummaryMade(result.value)
                                        THEN Append(sb_summaries, Value(result.value))
                                        ELSE sb_summaries
                     /\ sb_i' = sb_i + 1
                     /\ UNCHANGED sb_pc
    /\ UNCHANGED <<sum_call, sb_len>>
    /\ CoreRest /\ UNCHANGED <<parseVars, matVars, multiVars>>

\* return summaries
SummarizeBatchReturn ==
    /\ sb_pc = "loop" /\ sb_i > sb_len
    /\ sb_pc' = "idle"
    /\ UNCHANGED <<sum_call, sb_len, sb_i, sb_attempts, sb_summaries>>
    /\ CoreRest /\ UNCHANGED <<parseVars, matVars, multiVars>>

\* -------------------------------------------------------- QuizGenerator
\* a reply to a quiz or flashcard request: text json.loads or the item loop
\* fails on (None), or n well-formed items
ItemReplies == {None, Some(0), Some(1)}

\* generate_quiz_questions with the reply it gets
quiz_questions_reply(summary, outcome, reply) ==
    IF ClientRaises(outcome) THEN generate_quiz_questions(summary, outcome, 0)
    ELSE IF reply = None
    THEN IF QuizCatches THEN Returned(<<>>) ELSE RaisedToCaller
    ELSE generate_quiz_questions(summary, outcome, Value(reply))

\* generate_flashcards with the reply it gets
flashcards_reply(summary, outcome, reply) ==
    IF ClientRaises(outcome) THEN generate_flashcards(summary, outcome, 0)
    ELSE IF reply = None
    THEN IF FlashcardCatches THEN Returned(<<>>) ELSE RaisedToCaller
    ELSE generate_flashcards(summary, outcome, Value(reply))

\* QuizGenerator.generate_learning_materials
generate_learning_materials(summary, quiz, cards) ==
    IF quiz.raised \/ cards.raised THEN RaisedToCaller
    ELSE Returned([summary |-> summary, quiz_questions |-> quiz.value,
                   flashcards |-> cards.value])

MaterialsFresh ==
    /\ gm_pc = "idle" /\ gm_len = 0 /\ gm_i = 1
    /\ gm_log = <<>> /\ materials = <<>>

\* generate_batch_materials is called with n summaries: materials = []
BatchMaterialsCall ==
    /\ gm_pc = "idle"
    /\ \E n \in 0..MaxMatBatch : gm_len' = n
    /\ gm_pc' = "loop"
    /\ gm_i' = 1
    /\ gm_log' = <<>>
    /\ materials' = <<>>
    /\ CoreRest /\ UNCHANGED <<parseVars, sumVars, multiVars>>

\* one iteration: generate_learning_materials, materials.append
BatchMaterialsSummary ==
    /\ gm_pc = "loop" /\ gm_i <= gm_len
    /\ \E quiz_outcome \in Outcomes, quiz_reply \in ItemReplies,
          card_outcome \in Outcomes, card_reply \in ItemReplies :
         LET quiz == quiz_questions_reply(gm_i, quiz_outcome, quiz_reply)
             cards == flashcards_reply(gm_i, card_outcome, card_reply)
             made == generate_learning_materials(gm_i, quiz, cards)
         IN  /\ gm_log' = Append(gm_log,
                    [index |-> gm_i,
                     quiz_failed |-> quiz_outcome # "ok" \/ quiz_reply = None,
                     quiz_items |-> IF quiz_reply = None THEN 0 ELSE Value(quiz_reply),
                     cards_failed |-> card_outcome # "ok" \/ card_reply = None,
                     card_items |-> IF card_reply = None THEN 0 ELSE Value(card_reply)])
             /\ IF made.raised
                THEN gm_pc' = "raised" /\ UNCHANGED <<gm_i, materials>>
                ELSE /\ materials' = Append(materials, made.value)
                     /\ gm_i' = gm_i + 1
                     /\ UNCHANGED gm_pc
    /\ UNCHANGED gm_len
    /\ CoreRest /\ UNCHANGED <<parseVars, sumVars, multiVars>>

\* return materials
BatchMaterialsReturn ==
    /\ gm_pc = "loop" /\ gm_i > gm_len
    /\ gm_pc' = "idle"
    /\ UNCHANGED <<gm_len, gm_i, gm_log, materials>>
    /\ CoreRest /\ UNCHANGED <<parseVars, sumVars, multiVars>>

\* ------------- LearningFeedScheduler: start_scheduler and stop_scheduler
\* called in any order on one scheduler; every thread they leave behind
SchedRest ==
    UNCHANGED <<cfgVars, setupVars, mainVars, loop_pc, loop_error, retryVars, genVars,
                healthVars, callVars, fetchVars, notionVars, filterVars,
                parseVars, sumVars, matVars>>

SchedFresh ==
    /\ threads = <<>> /\ caller_pc = "idle" /\ late_attempt = FALSE

\* the thread is still inside run_scheduler
Alive(t) == threads[t].pc # "exited"

\* stop_scheduler has returned and start_scheduler has not run since
Stopped == ~is_running /\ caller_pc = "idle" /\ threads # <<>>

\* start_scheduler: the two early returns; setup_schedule, is_running = True,
\* and a new thread running run_scheduler
SchedStart ==
    /\ caller_pc = "idle"
    /\ IF is_running \/ ~schedule_config.enabled
       THEN UNCHANGED <<is_running, jobs, scheduler_thread, threads>>
       ELSE /\ Len(threads) < MaxThreads
            /\ jobs' = TRUE
            /\ is_running' = TRUE
            /\ threads' = Append(threads, [pc |-> "while", attempt |-> 0])
            /\ scheduler_thread' = TRUE
    /\ UNCHANGED <<caller_pc, late_attempt>>
    /\ SchedRest

\* stop_scheduler up to the join: the early return, is_running = False, and
\* schedule.clear() at once when the thread is not alive
SchedStop ==
    /\ caller_pc = "idle"
    /\ IF ~is_running
       THEN UNCHANGED <<is_running, jobs, caller_pc>>
       ELSE /\ is_running' = FALSE
            /\ IF scheduler_thread /\ Alive(Len(threads))
               THEN caller_pc' = "stop_join" /\ UNCHANGED jobs
               ELSE jobs' = FALSE /\ UNCHANGED caller_pc
    /\ UNCHANGED <<scheduler_thread, threads, late_attempt>>
    /\ SchedRest

\* self.scheduler_thread.join(timeout=5) returns, then schedule.clear()
SchedStopJoin ==
    /\ caller_pc = "stop_join"
    /\ \E timed_out \in BOOLEAN : timed_out \/ ~Alive(Len(threads))
    /\ jobs' = FALSE
    /\ caller_pc' = "idle"
    /\ UNCHANGED <<is_running, scheduler_thread, threads, late_attempt>>
    /\ SchedRest

\* thread t moves to pc, in attempt a of its job
Moves(t, pc, a) == threads' = [threads EXCEPT ![t] = [pc |-> pc, attempt |-> a]]

ThreadOnly == UNCHANGED <<is_running, jobs, scheduler_thread, caller_pc>> /\ SchedRest

\* while self.is_running
ThreadLoopTest ==
    \E t \in 1..Len(threads) :
        /\ threads[t].pc = "while"
        /\ Moves(t, IF LoopContinues THEN "run_pending" ELSE "exited", 0)
        /\ UNCHANGED late_attempt
        /\ ThreadOnly

\* schedule.run_pending(): a job is due and _run_with_retry begins its first
\* attempt, or nothing is due
ThreadRunPending ==
    \E t \in 1..Len(threads) :
        /\ threads[t].pc = "run_pending"
        /\ \E due \in BOOLEAN :
             IF due /\ jobs /\ AttemptInRange(1)
             THEN /\ Moves(t, "attempt", 1)
                  /\ late_attempt' = (late_attempt \/ Stopped)
             ELSE /\ Moves(t, "sleep", 0)
                  /\ UNCHANGED late_attempt
        /\ ThreadOnly

\* run_daily_generation is over: return on success; otherwise the wait before
\* the next attempt, or the end of the for loop
ThreadAttemptEnds ==
    \E t \in 1..Len(threads) :
        /\ threads[t].pc = "attempt"
        /\ \E success \in BOOLEAN :
             IF ~success /\ ShouldWait(threads[t].attempt)
             THEN Moves(t, "waiting", threads[t].attempt)
             ELSE Moves(t, "sleep", 0)
        /\ UNCHANGED late_attempt
        /\ ThreadOnly

\* time.sleep(retry_delay_minutes * 60) is over: the next attempt begins
ThreadWaitDone ==
    \E t \in 1..Len(threads) :
        /\ threads[t].pc = "waiting"
        /\ Moves(t, "attempt", threads[t].attempt + 1)
        /\ late_attempt' = (late_attempt \/ Stopped)
        /\ ThreadOnly

\* time.sleep(60) is over
ThreadSleepDone ==
    \E t \in 1..Len(threads) :
        /\ threads[t].pc = "sleep"
        /\ Moves(t, "while", 0)
        /\ UNCHANGED late_attempt
        /\ ThreadOnly

\* the components of the sections above, none called yet
MoreFresh ==
    /\ ParseFresh
    /\ SummarizerFresh
    /\ MaterialsFresh
    /\ SchedFresh

\* ------------------------------------------------------ specifications
HealthFresh ==
    /\ last_successful_run = None
    /\ consecutive_failures = 0
    /\ alerts = 0
    /\ calls = <<>>
    /\ health_status = None
    /\ clock = 0

\* no component has been called on its own
CompFresh ==
    /\ call_log = <<>>
    /\ perplexity_api_key = FALSE /\ rate_limit = 60
    /\ FetcherFresh
    /\ filter_call = None
    /\ MoreFresh
    /\ db_schema = DefaultSchema
    /\ AdapterFresh

Idle ==
    /\ handler_pc = "none" /\ running = FALSE /\ signals = 0 /\ exit_code = -1
    /\ setup_ok = FALSE /\ fault = "none" /\ reported = <<>>
    /\ is_running = FALSE /\ scheduler_thread = FALSE /\ jobs = FALSE
    /\ loop_pc = "none" /\ loop_error = FALSE
    /\ retry_pc = "idle" /\ attempt = 0 /\ trail = <<>>
    /\ gen_pc = "idle" /\ gen_result = FALSE /\ raised = FALSE /\ stages = <<>>
    /\ fetch_i = 1 /\ sum_i = 1 /\ mat_i = 1 /\ ent_i = 1
    /\ articles = <<>> /\ recent_articles = <<>> /\ summaries = <<>>
    /\ learning_materials = <<>> /\ created_entries = <<>>

DefaultSchedule == [enabled |-> FALSE, retry_attempts |-> 3]

\* a process has started: the command line or the scheduler daemon
Init ==
    /\ mode \in {"cli", "daemon"}
    /\ config \in Configs
    /\ num_topics \in 1..MaxTopics
    /\ IF mode = "cli"
       THEN /\ args \in Commands
            /\ schedule_config = DefaultSchedule
            /\ main_pc = "cli_validate"
       ELSE /\ args = "run"
            /\ schedule_config \in ScheduleConfigs
            /\ main_pc = "create"
    /\ Idle
    /\ HealthFresh
    /\ CompFresh

Next ==
    \/ CliStep
    \/ MainThreadStep
    \/ Signal
    \/ StopJoin
    \/ LoopThreadStep
    \/ GenStep

Spec == Init /\ [][Next]_vars

\* the threads of the daemon are scheduled fairly
FairSpec ==
    Spec /\ WF_vars(LoopThreadStep \/ (mode = "daemon" /\ GenStep)) /\ WF_vars(StopJoin)

ValidConfig ==
    [openai_api_key |-> "key", notion_token |-> "key", notion_database_id |-> "key",
     max_articles_per_topic |-> 1, content_max_age_hours |-> 2]

\* no process is running: the objects are used on their own
ProgramQuiet ==
    /\ mode = "daemon"
    /\ config = ValidConfig
    /\ num_topics = 1
    /\ args = "run"
    /\ schedule_config = DefaultSchedule
    /\ main_pc = "create"
    /\ Idle
    /\ HealthFresh

\* a HealthChecker on its own, called in any order while time passes
InitHealth ==
    /\ ProgramQuiet
    /\ CompFresh

NextHealth == RecordSuccess \/ RecordFailure \/ CheckHealth \/ Tick

SpecHealth == InitHealth /\ [][NextHealth]_vars

\* the components called on their own, with every provider outcome
InitCalls == InitHealth

NextCalls ==
    \/ CallFetch \/ CallSummarize \/ CallQuiz \/ CallFlashcards \/ CallCreateEntry

SpecCalls == InitCalls /\ [][NextCalls]_vars

\* one ContentFetcher, its fetch_content called again and again
InitFetch ==
    /\ ProgramQuiet
    /\ call_log = <<>>
    /\ perplexity_api_key \in BOOLEAN
    /\ rate_limit \in RateLimits
    /\ FetcherFresh
    /\ filter_call = None
    /\ MoreFresh
    /\ db_schema = DefaultSchema
    /\ AdapterFresh

NextFetch == FetchContentCall \/ FetchContentTopic \/ FetchContentReturn

SpecFetch == InitFetch /\ [][NextFetch]_vars

\* a database with one of these schemas behind the adapter
AdapterSchemas ==
    {DefaultSchema, EmptyMap, [n \in {"Name", "Title"} |->
                                  IF n = "Name" THEN "title" ELSE "rich_text"]}

Range(fields) == {fields[i] : i \in 1..Len(fields)}
SchemasOver(names, types) == UNION {[S -> types] : S \in SUBSET names}

\* schemas for create_learning_entry: per logical attribute, every choice of
\* its candidate fields with the type the code writes or another one
EntrySchemas ==
    {DefaultSchema}
    \cup SchemasOver(Range(title_fields), {"title", "rich_text"})
    \cup SchemasOver({"Topic"}, {"select", "multi_select", "rich_text", "number"})
    \cup SchemasOver(Range(summary_fields), {"rich_text", "number"})
    \cup SchemasOver(Range(url_fields), {"url", "rich_text"})
    \cup SchemasOver(Range(date_fields), {"date", "rich_text"})
    \cup SchemasOver({"Status"}, {"select", "status", "rich_text", "number"})
    \cup SchemasOver(Range(priority_fields), {"select", "number"})
    \cup SchemasOver(Range(quiz_fields), {"rich_text", "number"})
    \cup SchemasOver(Range(flashcard_fields), {"rich_text", "number"})
    \cup SchemasOver({"Answers"}, {"rich_text", "number"})
    \cup SchemasOver(Range(key_fields), {"rich_text", "number"})
    \cup SchemasOver(Range(objective_fields), {"rich_text", "number"})

\* entries written into a database of any of these schemas
InitEntry ==
    /\ ProgramQuiet
    /\ call_log = <<>>
    /\ perplexity_api_key = FALSE /\ rate_limit = 60
    /\ FetcherFresh
    /\ filter_call = None
    /\ MoreFresh
    /\ db_schema \in EntrySchemas
    /\ AdapterFresh

NextEntry == BatchCreateCall \/ BatchCreateEntry \/ BatchCreateReturn

SpecEntry == InitEntry /\ [][NextEntry]_vars

\* published_date of an article, in minutes: unknown, or around the cutoffs
FilterNow == 120
FilterAges == {1, 2}
FilterDates == {None, Some(0 - 1), Some(0), Some(59), Some(60)}

\* the article lists of up to MaxFilterLen articles, each with its position
FilterInputs ==
    UNION {{[i \in 1..n |-> [topic |-> i, source |-> "rss", published_date |-> d[i]]] :
              d \in [1..n -> FilterDates]} : n \in 0..MaxFilterLen}

\* filter_recent_content(articles, max_age_hours) called at time FilterNow
CallFilter ==
    /\ \E arts \in FilterInputs, max_age_hours \in FilterAges :
         filter_call' = Some([articles |-> arts, now |-> FilterNow,
                              max_age_hours |-> max_age_hours,
                              result |-> filter_recent_content(arts, FilterNow,
                                                               max_age_hours)])
    /\ UNCHANGED <<cfgVars, setupVars, mainVars, schedVars, retryVars, genVars, healthVars>>
    /\ UNCHANGED <<callVars, fetchVars, notionVars, moreVars>>

InitFilter == InitHealth

NextFilter == CallFilter

SpecFilter == InitFilter /\ [][NextFilter]_vars

\* _parse_perplexity_response on every response of up to MaxParseLines lines
InitParse == InitHealth

NextParse == ParseCall \/ ParseLine \/ ParseReturn

SpecParse == InitParse /\ [][NextParse]_vars

\* summarize_article with every outcome of the request and every reply
InitSummarize == InitHealth

NextSummarize == CallSummarizeArticle

SpecSummarize == InitSummarize /\ [][NextSummarize]_vars

\* summarize_batch over up to MaxSumBatch articles
InitSumBatch == InitHealth

NextSumBatch == SummarizeBatchCall \/ SummarizeBatchArticle \/ SummarizeBatchReturn

SpecSumBatch == InitSumBatch /\ [][NextSumBatch]_vars

\* generate_batch_materials over up to MaxMatBatch summaries
InitMaterials == InitHealth

NextMaterials == BatchMaterialsCall \/ BatchMaterialsSummary \/ BatchMaterialsReturn

SpecMaterials == InitMaterials /\ [][NextMaterials]_vars

\* one LearningFeedScheduler, started and stopped in any order
InitSched ==
    /\ mode = "daemon"
    /\ config = ValidConfig
    /\ num_topics = 1
    /\ args = "run"
    /\ schedule_config \in ScheduleConfigs
    /\ main_pc = "create"
    /\ Idle
    /\ HealthFresh
    /\ CompFresh

NextSched ==
    \/ SchedStart \/ SchedStop \/ SchedStopJoin
    \/ ThreadLoopTest \/ ThreadRunPending \/ ThreadAttemptEnds
    \/ ThreadWaitDone \/ ThreadSleepDone

SpecSched == InitSched /\ [][NextSched]_vars

\* one NotionLearningDatabase, its methods called one after another
InitNotion ==
    /\ ProgramQuiet
    /\ call_log = <<>>
    /\ perplexity_api_key = FALSE /\ rate_limit = 60
    /\ FetcherFresh
    /\ filter_call = None
    /\ MoreFresh
    /\ db_schema \in AdapterSchemas
    /\ AdapterFresh

NextNotion ==
    \/ VerifyConnection \/ CreateDatabaseSchema \/ QueryRecentEntries
    \/ UpdateEntryStatus \/ GetDatabaseStats
    \/ BatchCreateCall \/ BatchCreateEntry \/ BatchCreateReturn

SpecNotion == InitNotion /\ [][NextNotion]_vars

\* ------------------------------------------------------------ properties
Count(s, e) == Cardinality({i \in 1..Len(s) : s[i] = e})
Last(s) == s[Len(s)]
Failed(e) == e \in {"failure", "error"}
FailedCount(s) == Count(s, "failure") + Count(s, "error")

\* C1: one trigger makes at most retry_attempts attempts; nothing follows a
\* successful attempt; the wrapper gives up only after retry_attempts failed
\* attempts, and is idle again only after a success or after giving up.
C1_RetryBounded ==
    LET n == schedule_config.retry_attempts
    IN  /\ Count(trail, "attempt") <= n
        /\ attempt <= n
        /\ \A i \in 1..Len(trail) : trail[i] = "success" => i = Len(trail)
        /\ \A i \in 1..Len(trail) :
             trail[i] = "gave_up" =>
                 i = Len(trail) /\ FailedCount(trail) = n /\ Count(trail, "attempt") = n
        /\ retry_pc = "gave_up" => FailedCount(trail) = n /\ Count(trail, "success") = 0
        /\ retry_pc = "attempt" => attempt \in 1..n /\ Count(trail, "attempt") = attempt
        /\ retry_pc = "return_ok" => Last(trail) = "success"
        /\ (retry_pc = "idle" /\ trail # <<>>) => Last(trail) \in {"success", "gave_up"}

\* two attempts were made and both failed: the wrapper is about to give up
C1_Witness ==
    /\ retry_pc = "gave_up"
    /\ schedule_config.retry_attempts = 2
    /\ Count(trail, "attempt") = 2

\* C2: a wait directly follows a failed attempt that is not the last permitted
\* one, every attempt but the first directly follows a wait, and a failed
\* attempt is followed by a wait or by giving up, so that there is no wait after
\* a success or after the last permitted attempt.
C2_WaitBetweenAttempts ==
    LET n == schedule_config.retry_attempts
    IN  \A i \in 1..Len(trail) :
          /\ trail[i] = "wait" =>
                 /\ i > 1 /\ Failed(trail[i - 1])
                 /\ Count(SubSeq(trail, 1, i), "attempt") < n
          /\ (trail[i] = "attempt" /\ i > 1) => trail[i - 1] = "wait"
          /\ (Failed(trail[i]) /\ i < Len(trail)) => trail[i + 1] \in {"wait", "gave_up"}
          /\ (trail[i] = "success") => i = Len(trail)

\* a failed attempt, the wait, a second failed attempt and no wait after it
C2_Witness ==
    /\ Len(trail) = 6
    /\ trail[3] = "wait"
    /\ trail[5] = "failure"
    /\ trail[6] = "gave_up"

\* C3: no exception reaches the polling loop from _run_with_retry, the thread
\* does not die of one, and an attempt in which a stage raised is judged failed.
C3_NoExceptionEscapes ==
    /\ ~loop_error
    /\ loop_pc # "crashed"
    /\ \A i \in 1..Len(trail) : trail[i] # "escaped"
    /\ (mode = "daemon" /\ raised /\ retry_pc \in {"check_wait", "return_ok"}) =>
           Failed(Last(trail))

\* the polling loop sleeps again after a trigger whose last attempt raised
C3_Witness ==
    /\ raised
    /\ loop_pc = "sleep"
    /\ trail # <<>>
    /\ Last(trail) = "gave_up"

\* C4: when the next attempt has started, or the trigger is over, the
\* HealthChecker has been told (record_success or record_failure) about every
\* attempt completed so far.
C4_HealthUpdatedAfterAttempt ==
    retry_pc \in {"attempt", "idle"} =>
        Len(calls) >= Count(trail, "success") + FailedCount(trail)

RECURSIVE TrailingFailures(_)
TrailingFailures(c) ==
    IF c = <<>> \/ Last(c) = "success" THEN 0
    ELSE 1 + TrailingFailures(SubSeq(c, 1, Len(c) - 1))

\* the record_failure calls that left three or more failures in a row
AlertingCalls(c) ==
    {i \in 1..Len(c) : c[i] = "failure" /\ TrailingFailures(SubSeq(c, 1, i)) >= 3}

\* C5: consecutive_failures is the number of failures recorded since the last
\* recorded success (since construction if there is none), and the alert has
\* been raised on exactly the record_failure calls that left the counter at 3
\* or more.
C5_CounterAndAlerts ==
    /\ consecutive_failures = TrailingFailures(calls)
    /\ alerts = Cardinality(AlertingCalls(calls))

\* four failures in a row: the third and the fourth alerted
C5_Witness ==
    /\ Len(calls) = 4
    /\ consecutive_failures = 4
    /\ alerts = 2

\* no success was recorded within the last 48 hours (none at all included)
NoRecentSuccess ==
    \/ last_successful_run = None
    \/ clock - Value(last_successful_run) > 48

\* C6: check_health reports the stale condition whenever no successful run was
\* recorded within the last 48 hours, a checker without any success included.
C6_StaleWheneverNoRecentSuccess ==
    (health_status # None /\ NoRecentSuccess) =>
        \E i \in 1..Len(Value(health_status).issues) :
            Value(health_status).issues[i] = "stale"

\* C7: check_health lists the failure issue exactly when consecutive_failures
\* is 3 or more and the stale issue exactly when the last success is more than
\* 48 hours old; when both hold both are listed.
C7_IssuesIndependent ==
    health_status # None =>
        LET issues == Value(health_status).issues
            has(e) == \E i \in 1..Len(issues) : issues[i] = e
            old == last_successful_run # None /\ clock - Value(last_successful_run) > 48
            many == consecutive_failures >= 3
        IN  /\ has("failures") <=> many
            /\ has("stale") <=> old
            /\ Len(issues) = (IF many THEN 1 ELSE 0) + (IF old THEN 1 ELSE 0)

\* a success more than 48 hours ago and three failures since: both issues
C7_Witness ==
    /\ health_status # None
    /\ Value(health_status).issues = <<"stale", "failures">>
    /\ Value(health_status).status = "critical"

\* stop_scheduler has cleared the flag of a scheduler that has its thread
StopCleared == mode = "daemon" /\ scheduler_thread /\ ~is_running

\* C8: once the flag is cleared the polling loop starts no further iteration,
\* its thread ends (the loop exits, or the process ends first), and the join
\* inside stop_scheduler returns.
C8_LoopStops ==
    /\ [][StopCleared => ~(loop_pc # "run_pending" /\ loop_pc' = "run_pending")]_vars
    /\ (StopCleared ~> ~ThreadAlive)
    /\ ((handler_pc = "stop_join") ~> (handler_pc = "none"))

\* the loop left its while by itself, the process still running
C8_Witness ==
    /\ StopCleared
    /\ loop_pc = "exited"
    /\ exit_code = -1
    /\ handler_pc = "none"

\* C9: the stages start in the order fetch, filter, summarize, generate,
\* persist, each after the one before has completed, never after a stage that
\* produced nothing, and no item is handled outside its stage.
C9_StageOrder ==
    LET started(st) == \E i \in 1..Len(stages) : stages[i] = st
    IN  /\ Len(stages) <= Len(StageOrder)
        /\ stages = SubSeq(StageOrder, 1, Len(stages))
        /\ started("filter") => fetch_i > num_topics /\ articles # <<>>
        /\ started("summarize") => recent_articles # <<>>
        /\ started("generate") => sum_i > Len(recent_articles) /\ summaries # <<>>
        /\ started("persist") =>
               /\ mat_i > Len(summaries)
               /\ Len(learning_materials) = Len(summaries)
               /\ learning_materials # <<>>
        /\ ~started("filter") => recent_articles = <<>>
        /\ ~started("summarize") => sum_i = 1 /\ summaries = <<>>
        /\ ~started("generate") => mat_i = 1 /\ learning_materials = <<>>
        /\ ~started("persist") => ent_i = 1 /\ created_entries = <<>>

\* a run went through the five stages and saved an entry
C9_Witness ==
    /\ stages = StageOrder
    /\ gen_pc = "returned"
    /\ gen_result
    /\ created_entries # <<>>

\* C10 as stated: the exit status of a command-line run that was neither
\* interrupted nor hit by a raised error is non-zero exactly on a validation
\* failure or when zero articles were fetched.
C10_ExitOnlyOnValidationOrNoArticles ==
    (mode = "cli" /\ exit_code # -1 /\ fault = "none" /\ ~raised) =>
        (exit_code # 0 <=> (~setup_ok \/ (stages # <<>> /\ articles = <<>>)))

\* C10, amended: the exit status is 1 on a setup-validation failure, on zero
\* articles fetched, on zero summaries generated, on an error raised inside
\* the run, and on an interrupt or an unexpected error outside it; it is 0 in
\* every other outcome.
C10_ExitStatus ==
    (mode = "cli" /\ exit_code # -1) =>
        /\ exit_code \in {0, 1}
        /\ exit_code = 1 <=>
               \/ ~setup_ok
               \/ fault # "none"
               \/ raised
               \/ stages # <<>> /\ articles = <<>>
               \/ /\ stages # <<>> /\ Last(stages) = "summarize"
                  /\ sum_i > Len(recent_articles) /\ summaries = <<>>

\* a run that fetched a recent article and summarized none of it exits with 1
C10_Witness ==
    /\ mode = "cli" /\ exit_code = 1
    /\ setup_ok /\ fault = "none" /\ ~raised
    /\ recent_articles # <<>>
    /\ summaries = <<>>

\* C11: with configuration errors no pipeline stage is ever started, from the
\* command line or from the scheduler daemon (no scheduler thread, no trigger,
\* no run), and when the process has stopped every error has been reported and
\* the exit status is 1.
C11_InvalidConfigStops ==
    validate(config) # <<>> =>
        /\ stages = <<>> /\ gen_pc = "idle"
        /\ articles = <<>> /\ summaries = <<>> /\ learning_materials = <<>>
        /\ created_entries = <<>>
        /\ loop_pc = "none" /\ ~is_running /\ trail = <<>>
        /\ exit_code \in {-1, 1}
        /\ main_pc = "exit" => exit_code = 1 /\ reported = validate(config)
        /\ main_pc \notin {"cli_validate", "create", "validate", "exit"} => FALSE

\* a configuration with two errors has stopped the process after reporting both
C11_Witness ==
    /\ main_pc = "exit"
    /\ exit_code = 1
    /\ Len(reported) = 2
    /\ reported = validate(config)

\* C12: a call whose provider request failed (non-200, timeout, transport
\* failure) raises nothing to its caller and gives the empty result: an empty
\* list from fetch_with_perplexity, generate_quiz_questions and
\* generate_flashcards, None from summarize_article and create_learning_entry.
C12_FailuresStayInside ==
    \A i \in 1..Len(call_log) :
        /\ ~call_log[i].raised
        /\ call_log[i].outcome # "ok" => call_log[i].empty

\* a summarizer call that timed out and an entry write answered with an error
C12_Witness ==
    /\ Len(call_log) = 2
    /\ call_log[1].component = "summarize_article"
    /\ call_log[1].outcome = "timeout"
    /\ call_log[2].component = "create_learning_entry"
    /\ call_log[2].outcome = "non_200"

\* what fetch_content must have collected after the logged topics
RECURSIVE ExpectedArticles(_)
ExpectedArticles(log) ==
    IF log = <<>> THEN <<>>
    ELSE LET e == Last(log)
         IN  ExpectedArticles(SubSeq(log, 1, Len(log) - 1))
             \o (IF e.primary # <<>> THEN e.primary
                 ELSE fetch_with_rss(e.topic, fc_max_articles))

\* C13: in fetch_content the fallback source is consulted for a topic exactly
\* when the primary provider gave no article for it, it changes that topic's
\* articles only, nothing is raised, and the articles of the topics are
\* concatenated in topic order.
C13_FallbackPerTopic ==
    /\ fc_pc # "raised"
    /\ \A i \in 1..Len(fc_log) :
         /\ fc_log[i].topic = i
         /\ fc_log[i].fallback <=> fc_log[i].primary = <<>>
    /\ all_articles = ExpectedArticles(fc_log)
    /\ \A i, j \in 1..Len(all_articles) :
         i <= j => all_articles[i].topic <= all_articles[j].topic
    /\ \A j \in 1..Len(all_articles) :
         all_articles[j].source = "rss" <=> fc_log[all_articles[j].topic].fallback

\* the first topic came from the fallback, the second from the primary provider
C13_Witness ==
    /\ fc_pc = "idle"
    /\ Len(fc_log) = 2
    /\ fc_log[1].fallback /\ ~fc_log[2].fallback
    /\ Len(all_articles) = 2
    /\ all_articles[1].source = "rss"
    /\ all_articles[2].source = "perplexity"

\* C14: two consecutive primary-provider requests of one ContentFetcher are at
\* least 60 / rate_limit seconds apart (the later one is held back until the
\* interval has elapsed), and last_request_time is the time of the latest one.
C14_PrimaryRequestsSpaced ==
    /\ \A i \in 2..Len(sent) : (sent[i] - sent[i - 1]) * rate_limit >= 60
    /\ sent # <<>> => last_request_time = Last(sent)
    /\ sent = <<>> => last_request_time = 0
    /\ last_request_time <= time_now

\* at 20 requests a minute the second request came one second after the first
\* answer and was held back until three seconds had passed
C14_Witness ==
    /\ rate_limit = 20
    /\ Len(sent) >= 2
    /\ sent[2] - sent[1] = 3

\* C15: every request the adapter sends directly follows a rate-limit wait of
\* its own, and two consecutive requests (the schema probe and the page create
\* of one create_learning_entry among them) are at least 0.3 s apart.
C15_EveryRequestLimited ==
    \A i \in 1..Len(adapter.net) :
        /\ adapter.net[i].limited
        /\ i > 1 => adapter.net[i].at - adapter.net[i - 1].at >= 3

\* the fields of a candidate list that a property map writes the attribute to
WrittenTo(props, fields, attribute) ==
    {n \in Range(fields) : n \in DOMAIN props /\ props[n].attribute = attribute}

\* the first candidate, in list order, present in the schema with the type
FirstCompatible(schema, fields, type) ==
    LET ok == {i \in 1..Len(fields) :
                  fields[i] \in DOMAIN schema /\ schema[fields[i]] = type}
    IN  IF ok = {} THEN {}
        ELSE {fields[CHOOSE i \in ok : \A j \in ok : i <= j]}

\* C16: for every attribute with a candidate list, create_learning_entry
\* writes it to the first candidate, in list order, that the probed schema has
\* with the compatible type, and to no other candidate; a candidate of another
\* type is passed over.
C16_FirstCompatibleCandidate ==
    \A a \in 1..Len(batch_attempts) :
        LET s == batch_attempts[a].schema
            p == batch_attempts[a].properties
            right(fields, type, attribute) ==
                WrittenTo(p, fields, attribute) = FirstCompatible(s, fields, type)
        IN  /\ right(title_fields, "title", "title")
            /\ right(summary_fields, "rich_text", "summary")
            /\ right(url_fields, "url", "url")
            /\ right(date_fields, "date", "date")
            /\ right(priority_fields, "select", "priority")
            /\ right(quiz_fields, "rich_text", "quiz")
            /\ right(flashcard_fields, "rich_text", "flashcards")
            /\ right(key_fields, "rich_text", "key_points")
            /\ right(objective_fields, "rich_text", "objectives")

\* C17: the property map create_learning_entry sends names only fields of the
\* probed schema, each encoded in the type the schema declares for it.
C17_PropertiesFitSchema ==
    \A a \in 1..Len(batch_attempts) :
        LET s == batch_attempts[a].schema
            p == batch_attempts[a].properties
        IN  \A n \in DOMAIN p : n \in DOMAIN s /\ p[n].encoding = s[n]

\* the successful attempts of a batch, in order, as created_entries holds them
Succeeded(attempts) ==
    LET good == SelectSeq(attempts, LAMBDA a : a.ok)
    IN  [i \in 1..Len(good) |->
            [index |-> good[i].index, properties |-> good[i].properties]]

\* C18: batch_create_entries attempts a write for every element, in input
\* order, whatever the earlier outcomes; the result holds exactly the responses
\* of the successful writes, in input order; a failed write neither aborts the
\* batch nor raises.
C18_BatchAttemptsEveryElement ==
    /\ batch_pc # "raised"
    /\ Len(batch_attempts) = batch_i - 1
    /\ \A i \in 1..Len(batch_attempts) : batch_attempts[i].index = i
    /\ batch_pc = "idle" => Len(batch_attempts) = batch_len
    /\ batch_created = Succeeded(batch_attempts)

C18_Witness ==
    /\ batch_pc = "idle" /\ batch_len = 2
    /\ ~batch_attempts[1].ok /\ batch_attempts[2].ok
    /\ Len(batch_created) = 1 /\ batch_created[1].index = 2

\* C19: when its query is answered, get_database_stats reports the counts over
\* all entries of the database: after k successful writes into an empty
\* database, total_entries = k.
C19_StatsCountAllEntries ==
    (stats # None /\ Value(stats).answered) =>
        /\ ~Value(stats).report.empty
        /\ Value(stats).report.total_entries = Value(stats).entries

\* the positions of the articles that are recent at the call: no published
\* date, or one not before now - max_age_hours
RecentPositions(c) ==
    {i \in 1..Len(c.articles) :
        \/ c.articles[i].published_date = None
        \/ Value(c.articles[i].published_date) >= c.now - 60 * c.max_age_hours}

\* the j-th smallest member of a set of positions
Nth(S, j) == CHOOSE i \in S : Cardinality({k \in S : k <= i}) = j

\* C20: filter_recent_content returns, in input order, exactly the articles
\* whose published date is unknown or is >= now - max_age_hours.
C20_FilterKeepsRecentInOrder ==
    filter_call # None =>
        LET c == Value(filter_call)
            keep == RecentPositions(c)
        IN  /\ Len(c.result) = Cardinality(keep)
            /\ \A j \in 1..Len(c.result) : c.result[j] = c.articles[Nth(keep, j)]

\* an unknown date, a date before the cutoff and a date on the cutoff
C20_Witness ==
    /\ filter_call # None
    /\ LET c == Value(filter_call)
       IN  /\ c.max_age_hours = 1
           /\ Len(c.articles) = 3
           /\ c.articles[1].published_date = Some(59)
           /\ c.articles[2].published_date = None
           /\ c.articles[3].published_date = Some(60)
           /\ Len(c.result) = 2
           /\ c.result[1].topic = 2 /\ c.result[2].topic = 3

\* how many Articles a response gives when one is emitted each time all four
\* labelled fields have been seen since the last emission
RECURSIVE EmissionsDue(_, _)
EmissionsDue(lines, seen) ==
    IF lines = <<>> THEN 0
    ELSE LET now_seen == IF Head(lines) = "other" THEN seen ELSE seen \cup {Head(lines)}
         IN  IF now_seen = LineLabels \ {"other"}
             THEN 1 + EmissionsDue(Tail(lines), {})
             ELSE EmissionsDue(Tail(lines), now_seen)

\* C21: _parse_perplexity_response emits one Article each time all four
\* labelled fields have been seen since the last emission, in whatever order
\* the four lines occur; no complete block gives the empty list.
C21_EmitsWhenAllFourSeen ==
    Len(pp_articles) = EmissionsDue(pp_lines, {})

\* the blocks of a response: the maximal runs of labelled lines
BlockOf(lines, i) ==
    {j \in 1..Len(lines) :
        \A k \in 1..Len(lines) :
            ((i <= k /\ k <= j) \/ (j <= k /\ k <= i)) => lines[k] # "other"}

\* C22: a block missing exactly one of the four labelled fields produces no
\* Article and none of its field values appears in any Article.
C22_IncompleteBlockDropped ==
    \A i \in 1..Len(pp_lines) :
        LET block == BlockOf(pp_lines, i)
        IN  Cardinality({pp_lines[j] : j \in block}) = 3 =>
                \A a \in 1..Len(pp_articles) :
                    \A k \in ArticleKeys : pp_articles[a][k] \notin block

\* json.loads of the fenced text gives a value
FencedValid(content) == content.fence /\ content.closed /\ content.fenced # "invalid"

\* the reply holds the requested JSON object, fenced or as the whole text
HoldsObject(content) ==
    \/ FencedValid(content) /\ content.fenced \in {"full", "empty"}
    \/ content.whole \in {"full", "empty"}

\* C23: for every reply whose text is not parsable as the requested JSON
\* object, summarize_article returns a Summary whose summary is the first 500
\* characters of the text and whose two lists are empty.
C23_UnparsableGivesFallback ==
    (sum_call # None /\ Value(sum_call).outcome = "ok"
                      /\ ~HoldsObject(Value(sum_call).content)) =>
        LET c == Value(sum_call)
        IN  /\ ~c.result.raised
            /\ c.result.value # None
            /\ Value(c.result.value).text = "raw"
            /\ Value(c.result.value).chars =
                   (IF c.content.len <= 500 THEN c.content.len ELSE 500)
            /\ Value(c.result.value).key_points = 0
            /\ Value(c.result.value).learning_objectives = 0

\* C24: the three shapes are tried in order: the fenced JSON, then the whole
\* reply as JSON when no fenced block gave valid JSON, then the raw text; a
\* reply that is valid JSON as a whole is returned with its parsed values.
C24_ShapesTriedInOrder ==
    (sum_call # None /\ Value(sum_call).outcome = "ok") =>
        LET c == Value(sum_call)
            whole_object == c.content.whole \in {"full", "empty"}
        IN  (~FencedValid(c.content) /\ whole_object) =>
                /\ ~c.result.raised
                /\ c.result.value # None
                /\ Value(c.result.value).text = "whole"
                /\ Value(c.result.value).key_points =
                       (IF c.content.whole = "full" THEN 3 ELSE 0)

\* the Summaries of the attempts that gave one, in order
Summarized(attempts) ==
    LET good == SelectSeq(attempts, LAMBDA a : a.result # None)
    IN  [i \in 1..Len(good) |-> Value(good[i].result)]

\* C25: summarize_batch calls summarize_article once per article, in input
\* order, goes on after a failed one, and returns the Summaries of exactly the
\* articles that were summarized, in input order.
C25_BatchSkipsFailures ==
    /\ sb_pc # "raised"
    /\ Len(sb_attempts) = sb_i - 1
    /\ \A i \in 1..Len(sb_attempts) : sb_attempts[i].index = i
    /\ sb_pc = "idle" => Len(sb_attempts) = sb_len
    /\ sb_summaries = Summarized(sb_attempts)
    /\ Len(sb_summaries) <= sb_len
    /\ \A i, j \in 1..Len(sb_summaries) :
         i < j => sb_summaries[i].original_article < sb_summaries[j].original_article

\* the first article failed to summarize, the second was summarized
C25_Witness ==
    /\ sb_pc = "idle" /\ sb_len = 2
    /\ sb_attempts[1].result = None /\ sb_attempts[2].result # None
    /\ Len(sb_summaries) = 1 /\ sb_summaries[1].original_article = 2

\* C26: generate_learning_materials always returns a LearningMaterials owning
\* its summary; a failed quiz sub-call leaves quiz_questions empty and the
\* flashcards as produced, and the other way round; generate_batch_materials
\* returns one LearningMaterials per summary, in order, and never raises.
C26_OneMaterialsPerSummary ==
    /\ gm_pc # "raised"
    /\ Len(materials) = gm_i - 1
    /\ Len(gm_log) = Len(materials)
    /\ gm_pc = "idle" => Len(materials) = gm_len
    /\ \A i \in 1..Len(materials) :
         /\ materials[i].summary = i
         /\ Len(materials[i].quiz_questions) =
                (IF gm_log[i].quiz_failed THEN 0 ELSE gm_log[i].quiz_items)
         /\ Len(materials[i].flashcards) =
                (IF gm_log[i].cards_failed THEN 0 ELSE gm_log[i].card_items)

\* the quiz sub-call of the first summary failed and its flashcards were made;
\* the flashcard sub-call of the second failed and its questions were made
C26_Witness ==
    /\ gm_pc = "idle" /\ gm_len = 2
    /\ gm_log[1].quiz_failed /\ materials[1].quiz_questions = <<>>
    /\ Len(materials[1].flashcards) = 1
    /\ gm_log[2].cards_failed /\ materials[2].flashcards = <<>>
    /\ Len(materials[2].quiz_questions) = 1

\* C27: a CLI run with --dry-run makes no page-create call: no element of
\* batch_create_entries is written and no entry is created.
C27_DryRunSavesNothing ==
    (mode = "cli" /\ args = "dry_run") =>
        /\ ent_i = 1
        /\ created_entries = <<>>

\* the threads that are inside schedule.run_pending
Polling == {t \in 1..Len(threads) : threads[t].pc \in {"run_pending", "attempt", "waiting"}}

\* C28: across any sequence of start_scheduler and stop_scheduler calls at
\* most one polling loop is alive and calling schedule.run_pending.
C28_OnePollingLoop ==
    Cardinality(Polling) <= 1

\* C29: after stop_scheduler has returned (and before the next start), no
\* pipeline attempt begins.
C29_NoAttemptAfterStop ==
    ~late_attempt

\* the article has a published date, not more than two hours before its creation
Dated(a) ==
    a.published_date # None /\ Value(a.published_date) >= 0 - RssAgeMinutes

\* C30: in a pipeline run every fetched Article has a known published date no
\* older than 2 hours at creation, every requested topic has at least one
\* article, and so the run never stops for want of articles and the recency
\* filter never meets an article without a date.
C30_EveryTopicHasDatedArticles ==
    /\ \A i \in 1..Len(articles) : Dated(articles[i])
    /\ \A i \in 1..Len(recent_articles) : Dated(recent_articles[i])
    /\ gen_pc = "fetch" =>
           \A t \in 1..(fetch_i - 1) : \E i \in 1..Len(articles) : articles[i].topic = t
    /\ gen_pc = "filter" =>
           \A t \in 1..num_topics : \E i \in 1..Len(articles) : articles[i].topic = t
    /\ ~(gen_pc = "returned" /\ ~raised /\ ~gen_result /\ stages = <<"fetch">>)

\* the primary provider gave nothing and the run went on to the filter with
\* the fallback article
C30_Witness ==
    /\ gen_pc = "filter"
    /\ Len(articles) = num_topics
    /\ articles[1].source = "rss"
    /\ articles[1].published_date = Some(0 - RssAgeMinutes)

====
